---- MODULE Spec2Model ----
(***************************************************************************)
(* Model of the INX node bridge (iotaledger/inx-app, package nodebridge):  *)
(* the ledger-update reassembler driven by the generic stream pump, the    *)
(* synchronized node-status cache, and the proof of work of package pow.   *)
(*                                                                         *)
(*   LedgerSpec  ListenToLedgerUpdates on top of ListenToStream            *)
(*   StatusSpec  processNodeStatus applied to a stream of status updates   *)
(*   StatusLockSpec  processNodeStatus step by step, with the RWMutex      *)
(*   BlockAcceptedCallbackSpec  the one-shot callbacks of TangleListener   *)
(*   BlockAcceptedCallbackFairSpec  the same with a fair listener          *)
(*   BlockAcceptedEventSpec  the listeners of blockAcceptedNotifier        *)
(*   SlotSpec  RegisterSlotConfirmedEvent and the hook of Run              *)
(*   PumpSpec  ListenToStream step by step under the ledger-update stream  *)
(*   ParamStatusSpec  the status listener that caches protocol parameters  *)
(*   PowSpec  DoPoW with its refreshTipsFunc and Mine calls                *)
(*   PluginSpec  getPluginClient and its retry loop                        *)
(*   AccessorSpec  the cache accessors between status updates              *)
(*   StatusLockFullSpec  StatusLockSpec over every kind of status          *)
(*   LedgerStatusSpec  the ledger-update pump beside the status stream     *)
(*   RunSpec  NodeBridge.Run and the worker of the INX component           *)
(*   DeregisterSpec  Deregister and Clear against started callbacks        *)
(*   MilestoneSpec  the milestone-based bridge and its sync predicates     *)
(***************************************************************************)
EXTENDS Integers, Sequences, FiniteSets, TLC

\* ------------------------------------------------------------------ bounds
\* Largest count an END marker declares.
MaxCount == 2
\* Largest number of records the ledger-update stream hands to the consumer.
MaxRecords == 5
\* Largest slot a node status reports.
MaxSlot == 2
\* Largest number of searches DoPoW starts.
MaxSearches == 2
\* Largest number of clientInitHook calls of getPluginClient.
MaxInitCalls == 3
\* Largest milestone index the node reports, the top of the uint32 range aside.
MaxMilestoneIndex == 1

\* ------------------------------------------------------------------ values
\* A nil pointer.
Nil == [nil |-> TRUE]

Slots == 0..MaxSlot

\* iotago.CommitmentID: an identifier that encodes its slot.
CommitmentIDOfSlot(s) == [slot |-> s, hash |-> "h"]
Slot(commitmentID) == commitmentID.slot
\* iotago.EmptyCommitmentID, also the zero value of a CommitmentID variable.
EmptyCommitmentID == [slot |-> 0, hash |-> "0"]

\* Commitment IDs the batch markers of the ledger-update stream carry.
MarkerCommitmentIDs == {CommitmentIDOfSlot(1), CommitmentIDOfSlot(2)}

OutputIDs == {"o1", "o2"}
\* inx.LedgerOutput: the output ID the node claims, and what the record's
\* output and identity proof decode to: the output ID derived from them, or
\* "undecodable" when UnwrapOutput, UnwrapOutputIDProof or OutputID() fails.
LedgerOutputs == [outputID : OutputIDs, derived : OutputIDs \cup {"undecodable"}]

Counts == 0..MaxCount

\* inx.LedgerUpdate payloads. The counts of a BEGIN marker are read by the
\* debug log only (ledger.go:61) and are left out.
BeginMarkers == [op : {"BEGIN"}, commitmentID : MarkerCommitmentIDs]
EndMarkers == [op : {"END"}, commitmentID : MarkerCommitmentIDs,
               consumedCount : Counts, createdCount : Counts]
ConsumedOps == [op : {"CONSUMED"}, output : LedgerOutputs]
CreatedOps == [op : {"CREATED"}, output : LedgerOutputs]
Payloads == BeginMarkers \cup EndMarkers \cup ConsumedOps \cup CreatedOps

\* Errors of ledger.go:13-17 and the other results of ListenToLedgerUpdates.
ErrLedgerUpdateTransactionAlreadyInProgress == "ErrLedgerUpdateTransactionAlreadyInProgress"
ErrLedgerUpdateInvalidOperation == "ErrLedgerUpdateInvalidOperation"
ErrLedgerUpdateEndedAbruptly == "ErrLedgerUpdateEndedAbruptly"
ErrUnwrapConsumed == "unable to unwrap consumed output"
ErrUnwrapCreated == "unable to unwrap created output"
ErrConsumer == "consumer error"
ErrRecv == "receive error"
Success == "nil"
Running == "running"

\* ------------------------------------------------------------------ state
VARIABLES
    \* nodeBridge (node_bridge.go:131-134)
    nodeStatus,                 \* *inx.NodeStatus, Nil before the first update
    latestCommitment,           \* *Commitment
    latestFinalizedCommitment,  \* *Commitment
    \* effects of the last processNodeStatus call
    fired,                      \* events triggered by the call, in order
    committedSlot,              \* apiProvider.SetCommittedSlot
    stored,                     \* cache fields the call assigned
    statusState,                \* "ok", or "panic" after a nil dereference
    baseline,                   \* history: the cache after the first update
    \* ListenToLedgerUpdates
    update,                     \* the open accumulator, Nil when Idle
    latestCommitmentID,         \* local of ListenToLedgerUpdates (ledger.go:52)
    delivered,                  \* the consumer's invocations, in order
    result,                     \* Running, or what ListenToLedgerUpdates returned
    ctxDone,                    \* ctx.Err() != nil
    received,                   \* history: payloads handed to the consumer function
    stop,                       \* history: why the pump left its loop
    \* processNodeStatus step by step, against readers of the cache
    nodeStatusMutex,            \* sync.RWMutex: the writer flag and the reader count
    statusPc,                   \* where the status goroutine is in processNodeStatus
    pendingStatus,              \* the nodeStatus argument of the running call
    changed,                    \* the locals latestCommitmentChanged, latestFinalizedCommitmentChanged
    decoded,                    \* the locals latestCommitment, latestFinalizedCommitment
    handlerPc,                  \* where the running event handler is
    readerPc,                   \* another goroutine inside an accessor
    \* the node's blocks and its accepted-blocks stream
    nodeBlocks,                 \* what the node knows of each block
    acceptedStream,             \* acceptance records in flight to the listener
    emitted,                    \* number of records the node has sent
    listenerState,              \* listenToAcceptedBlocks: "running", "stopped" or "failed"
    deliveries,                 \* history: records of each block the listener consumed
    \* TangleListener (tangle_listener.go:22-33)
    blockAcceptedCallbacks,     \* map[iotago.BlockID]BlockAcceptedCallback
    blockAcceptedCallbacksLock, \* sync.Mutex: "free" or "held"
    callers,                    \* the RegisterBlockAcceptedCallback calls
    invoked,                    \* history: how often each callback was started
    running,                    \* callbacks whose goroutine has not returned
    removed,                    \* history: callbacks taken out by Deregister or Clear
    blockAcceptedListeners,     \* listeners of blockAcceptedNotifier and their callers
    \* slot confirmation
    lastConfirmedBlockSlot,     \* NodeStatus().GetLastConfirmedBlockSlot()
    slotListeners,              \* listeners of commitmentConfirmedNotifier and their callers
    hookPanic,                  \* the hook of Run dereferenced a nil *Commitment
    \* ListenToStream step by step
    pumpPc,                     \* "top", "recv" (receiverFunc called), "consume" or "done"
    pumpItem,                   \* the item consumerFunc is working on
    recvCalls,                  \* history: number of receiverFunc calls
    consuming,                  \* consumerFunc calls that have not returned
    arrived,                    \* history: items handed to consumerFunc, in order
    \* the node-status listener with protocol parameters (node_status.go:39-135)
    protocolParameters,         \* *iotago.ProtocolParameters
    statusListener,             \* listenToNodeStatus: "new", "failed", "running" or "returned"
    lifetimeCancelled,          \* the context Run gives to listenToNodeStatus is done
    lastStatus,                 \* history: the last processNodeStatus call, its status and error
    \* DoPoW (pow.go:32-127)
    powPc,                      \* where DoPoW is
    powInput,                   \* the arguments: the block, refreshTipsFunc given or nil, MinPoWScore
    block,                      \* the *iotago.Block: StrongParents and Nonce
    powData,                    \* the search prefix
    powCtxDone,                 \* ctx.Err() != nil
    attempt,                    \* what Mine, and then doPow, returned
    powRet,                     \* what DoPoW returned
    searches,                   \* history: number of Mine calls
    refreshes,                  \* history: number of refreshTipsFunc calls
    refreshed,                  \* history: what the last refreshTipsFunc call returned
    \* getPluginClient (node_bridge.go:245-273)
    pluginPc,                   \* where getPluginClient is
    notAvailableError,          \* the notAvailableError argument of getPluginClient
    pluginCtxDone,              \* ctx.Err() != nil
    pluginRet,                  \* what getPluginClient returned
    initCalls,                  \* history: number of clientInitHook calls
    lastInit,                   \* history: what the last clientInitHook call returned
    \* the callers of NodeStatus, LatestCommitment, LatestFinalizedCommitment (part_008:176-202)
    lastRead,                   \* history: the last accessor call and the value it returned
    updatedSince,               \* history: a status update was applied after that call
    \* NodeBridge.Run and the INX component (node_bridge.go:210-223, component.go:56-66)
    runPc,                      \* NodeBridge.Run: "new", "wait" or "returned"
    listenerPc,                 \* its goroutine: "none", "open", "recv", "cancel" or "done"
    listenerErr,                \* what listenToNodeStatus returned: "none", "nil" or "error"
    parentDone,                 \* the context given to Run is cancelled
    cDone,                      \* the context Run derived from it is done
    connClosed,                 \* n.conn.Close() was called
    workerPc,                   \* the INX background worker: "idle", "run", "check" or "done"
    selfShutdown,               \* ShutdownHandler.SelfShutdown was called
    \* the goroutines of triggerBlockAcceptedCallback (tangle_listener.go:107-114)
    begun,                      \* the goroutine of a callback began to execute f
    deregistered,               \* history: Deregister or Clear returned after the callback was registered
    begunAfter,                 \* history: f began after such a call had returned
    \* the milestone-based bridge (part_000, src/nodebridge/api_route.go, part_003)
    latestMilestone,            \* n.latestMilestone: an *inx.Milestone or nil
    confirmedMilestone,         \* n.confirmedMilestone
    milestonePc,                \* per thread: "new", "idle", "triggerLatest", "processConfirmed", "triggerConfirmed" or "stopped"
    milestoneArg,               \* per thread: the milestone or status it is processing
    milestoneCtxDone,           \* the context of the two listeners is done
    milestoneEvents             \* per event: how often it was triggered and the milestone of the last time

statusVars == <<nodeStatus, latestCommitment, latestFinalizedCommitment,
                fired, stored, committedSlot, statusState, baseline>>
ledgerVars == <<update, latestCommitmentID, delivered, result, ctxDone,
                received, stop>>
lockVars == <<nodeStatusMutex, statusPc, pendingStatus, changed, decoded,
              handlerPc, readerPc>>
tangleVars == <<nodeBlocks, acceptedStream, emitted, listenerState, deliveries,
                blockAcceptedCallbacks, blockAcceptedCallbacksLock, callers,
                invoked, running, removed, blockAcceptedListeners>>
slotVars == <<lastConfirmedBlockSlot, slotListeners, hookPanic>>
pumpVars == <<pumpPc, pumpItem, recvCalls, consuming, arrived>>
paramVars == <<protocolParameters, statusListener, lifetimeCancelled, lastStatus>>
powVars == <<powPc, powInput, block, powData, powCtxDone, attempt, powRet,
             searches, refreshes, refreshed>>
pluginVars == <<pluginPc, notAvailableError, pluginCtxDone, pluginRet, initCalls, lastInit>>
readVars == <<lastRead, updatedSince>>
runVars == <<runPc, listenerPc, listenerErr, parentDone, cDone, connClosed, workerPc, selfShutdown>>
callVars == <<begun, deregistered, begunAfter>>
milestoneVars == <<latestMilestone, confirmedMilestone, milestonePc, milestoneArg, milestoneCtxDone, milestoneEvents>>
vars == <<statusVars, ledgerVars, lockVars, tangleVars, slotVars, pumpVars,
          paramVars, powVars,
          pluginVars,
          readVars,
          runVars,
          callVars,
          milestoneVars>>

\* ListenToStream has been called and is at the top of its loop.
PumpIdle ==
    /\ pumpPc = "top"
    /\ pumpItem = Nil
    /\ recvCalls = 0
    /\ consuming = 0
    /\ arrived = <<>>

\* The bridge before the first status: no protocol parameters yet, the
\* status listener running.
ParamIdle ==
    /\ protocolParameters = Nil
    /\ statusListener = "new"
    /\ lifetimeCancelled = FALSE
    /\ lastStatus = Nil

\* DoPoW has not been called.
PowIdle ==
    /\ powPc = "idle"
    /\ powInput = Nil
    /\ block = Nil
    /\ powData = Nil
    /\ powCtxDone = FALSE
    /\ attempt = Nil
    /\ powRet = Nil
    /\ searches = 0
    /\ refreshes = 0
    /\ refreshed = Nil

\* getPluginClient has not been called.
PluginIdle ==
    /\ pluginPc = "idle"
    /\ notAvailableError = "none"
    /\ pluginCtxDone = FALSE
    /\ pluginRet = "none"
    /\ initCalls = 0
    /\ lastInit = "none"

\* No accessor has been called.
ReadIdle ==
    /\ lastRead = Nil
    /\ updatedSince = FALSE

\* The INX background worker has not started.
RunIdle ==
    /\ runPc = "new"
    /\ listenerPc = "none"
    /\ listenerErr = "none"
    /\ parentDone = FALSE
    /\ cDone = FALSE
    /\ connClosed = FALSE
    /\ workerPc = "idle"
    /\ selfShutdown = FALSE

\* The events of the milestone-based bridge (part_000:34-37), and the
\* record of one that was never triggered.
MilestoneEventNames == {"LatestMilestoneChanged", "ConfirmedMilestoneChanged"}
NoMilestoneEvent == [count |-> 0, milestone |-> Nil]

\* The goroutines of Run (part_000:83-90) and a caller of NodeStatus().
MilestoneThreads == {"latestStream", "confirmedStream", "caller"}

\* The milestone-based bridge has not been created.
MilestoneIdle ==
    /\ latestMilestone = Nil
    /\ confirmedMilestone = Nil
    /\ milestonePc = [t \in MilestoneThreads |-> "new"]
    /\ milestoneArg = [t \in MilestoneThreads |-> Nil]
    /\ milestoneCtxDone = FALSE
    /\ milestoneEvents = [e \in MilestoneEventNames |-> NoMilestoneEvent]

\* No processNodeStatus call is in progress and nobody holds the mutex.
LockIdle ==
    /\ nodeStatusMutex = [writer |-> FALSE, readers |-> 0]
    /\ statusPc = "idle"
    /\ pendingStatus = Nil
    /\ changed = [latest |-> FALSE, finalized |-> FALSE]
    /\ decoded = [latest |-> Nil, finalized |-> Nil]
    /\ handlerPc = "none"
    /\ readerPc = "idle"

\* Block IDs, the callers of RegisterBlockAcceptedCallback (each passes its
\* own callback) and the callers of RegisterBlockAcceptedEvent.
BlockIDs == {"b1", "b2"}
CallerIDs == {"c1", "c2"}
ListenerIDs == {"l1", "l2"}

IdleCall == [pc |-> "idle", blockID |-> "-", origin |-> "-",
             metadata |-> "-", ret |-> "-"]
NoListener == [pc |-> "idle", blockID |-> "-", state |-> "none",
               signalled |-> FALSE, witnessed |-> FALSE, metadata |-> "-",
               ret |-> "-", handle |-> FALSE]

\* No callback was started and none was deregistered.
CallIdle ==
    /\ begun = [c \in CallerIDs |-> FALSE]
    /\ deregistered = [c \in CallerIDs |-> FALSE]
    /\ begunAfter = [c \in CallerIDs |-> FALSE]

\* The TangleListener as NewTangleListener returns it
\* (tangle_listener.go:41-52), its accepted-blocks listener started by Run,
\* against a node that knows no block yet.
TangleIdle ==
    /\ nodeBlocks = [b \in BlockIDs |-> "unknown"]
    /\ acceptedStream = <<>>
    /\ emitted = 0
    /\ listenerState = "running"
    /\ deliveries = [b \in BlockIDs |-> 0]
    /\ blockAcceptedCallbacks = <<>>
    /\ blockAcceptedCallbacksLock = "free"
    /\ callers = [c \in CallerIDs |-> IdleCall]
    /\ invoked = [c \in CallerIDs |-> 0]
    /\ running = [c \in CallerIDs |-> FALSE]
    /\ removed = [c \in CallerIDs |-> FALSE]
    /\ blockAcceptedListeners = [l \in ListenerIDs |-> NoListener]

\* The callers of RegisterSlotConfirmedEvent.
SlotListenerIDs == {"s1"}
NoSlotListener == [pc |-> "idle", slot |-> 0, state |-> "none",
                   signalled |-> FALSE, due |-> FALSE]

\* No status received yet (the getter of a nil status returns 0) and no
\* listener of commitmentConfirmedNotifier.
SlotIdle ==
    /\ lastConfirmedBlockSlot = 0
    /\ slotListeners = [l \in SlotListenerIDs |-> NoSlotListener]
    /\ hookPanic = FALSE

\* ------------------------------------------------------------ unwrapOutput
\* Mutant: the claimed output ID is taken on trust, the derived one is not
\* compared with it.
unwrapOutputTrustClaimed(inxOutput, spent, latestCommitmentIDArg) ==
    IF inxOutput.derived = "undecodable"
    THEN [err |-> TRUE]
    ELSE [err |-> FALSE,
          output |-> [OutputID |-> inxOutput.outputID,
                      IsSpent |-> spent,
                      LatestCommitmentID |-> latestCommitmentIDArg]]

\* outputs.go:12-72. spent tells whether an inx.LedgerSpent came with the
\* output. The result is an error or the Output built from the record.
unwrapOutput(inxOutput, spent, latestCommitmentIDArg) ==
    IF inxOutput.derived = "undecodable"
    THEN [err |-> TRUE]
    ELSE IF inxOutput.derived # inxOutput.outputID
    THEN [err |-> TRUE]
    ELSE [err |-> FALSE,
          output |-> [OutputID |-> inxOutput.outputID,
                      IsSpent |-> spent,
                      LatestCommitmentID |-> latestCommitmentIDArg]]

\* ------------------------------------------------- ListenToLedgerUpdates
Panic == "panic"

\* The consumer function ListenToLedgerUpdates hands to ListenToStream
\* (ledger.go:53-119) is modelled case by case. Each case yields the new
\* value of the captured locals, the consumer's invocations and the error
\* the function returns (Success for nil).
Locals == [update |-> update,
           latestCommitmentID |-> latestCommitmentID,
           delivered |-> delivered,
           err |-> Success]

\* Mutant: a begin-marker replaces the open accumulator.
onBeginOverwrite(payload) ==
    [Locals EXCEPT
        !.update = [CommitmentID |-> payload.commitmentID,
                    Consumed |-> <<>>,
                    Created |-> <<>>],
        !.latestCommitmentID = latestCommitment.CommitmentID]

\* case inx.LedgerUpdate_Marker_BEGIN (ledger.go:59-72). LatestCommitment()
\* is dereferenced without a nil check.
onBegin(payload) ==
    IF update # Nil
    THEN [Locals EXCEPT !.err = ErrLedgerUpdateTransactionAlreadyInProgress]
    ELSE LET fresh == [CommitmentID |-> payload.commitmentID,
                       Consumed |-> <<>>,
                       Created |-> <<>>]
         IN  IF latestCommitment = Nil
             THEN [Locals EXCEPT !.update = fresh, !.err = Panic]
             ELSE [Locals EXCEPT
                     !.update = fresh,
                     !.latestCommitmentID = latestCommitment.CommitmentID]

\* Mutant: the created count is not compared.
endMarkerMismatchNoCreated(upd, marker) ==
    \/ Len(upd.Consumed) # marker.consumedCount
    \/ upd.CommitmentID # marker.commitmentID

\* Mutant: the commitment ID is not compared.
endMarkerMismatchNoCommitmentID(upd, marker) ==
    \/ Len(upd.Consumed) # marker.consumedCount
    \/ Len(upd.Created) # marker.createdCount

\* The comparison of the accumulator with the END marker (ledger.go:81-83).
endMarkerMismatch(upd, marker) ==
    \/ Len(upd.Consumed) # marker.consumedCount
    \/ Len(upd.Created) # marker.createdCount
    \/ upd.CommitmentID # marker.commitmentID

\* case inx.LedgerUpdate_Marker_END (ledger.go:74-90). consumerFails tells
\* whether the caller's consumer returns an error when it is invoked.
onEnd(payload, consumerFails) ==
    IF update = Nil
    THEN [Locals EXCEPT !.err = ErrLedgerUpdateInvalidOperation]
    ELSE IF endMarkerMismatch(update, payload)
    THEN [Locals EXCEPT !.err = ErrLedgerUpdateEndedAbruptly]
    ELSE IF consumerFails
    THEN [Locals EXCEPT !.delivered = Append(delivered, update),
                        !.err = ErrConsumer]
    ELSE [Locals EXCEPT !.delivered = Append(delivered, update),
                        !.update = Nil]

\* case *inx.LedgerUpdate_Consumed (ledger.go:93-103).
onConsumed(payload) ==
    IF update = Nil
    THEN [Locals EXCEPT !.err = ErrLedgerUpdateInvalidOperation]
    ELSE LET out == unwrapOutput(payload.output, TRUE, latestCommitmentID)
         IN  IF out.err
             THEN [Locals EXCEPT !.err = ErrUnwrapConsumed]
             ELSE [Locals EXCEPT !.update.Consumed =
                                    Append(update.Consumed, out.output)]

\* Mutant: a created record without an open batch is skipped silently.
onCreatedIgnoreStray(payload) ==
    IF update = Nil
    THEN Locals
    ELSE LET out == unwrapOutput(payload.output, FALSE, latestCommitmentID)
         IN  IF out.err
             THEN [Locals EXCEPT !.err = ErrUnwrapCreated]
             ELSE [Locals EXCEPT !.update.Created =
                                    Append(update.Created, out.output)]

\* Mutant: a created record is put in front of the list.
onCreatedPrepend(payload) ==
    IF update = Nil
    THEN [Locals EXCEPT !.err = ErrLedgerUpdateInvalidOperation]
    ELSE LET out == unwrapOutput(payload.output, FALSE, latestCommitmentID)
         IN  IF out.err
             THEN [Locals EXCEPT !.err = ErrUnwrapCreated]
             ELSE [Locals EXCEPT !.update.Created =
                                    <<out.output>> \o update.Created]

\* Mutant: a created output gets the commitment ID the cache holds when the
\* record is processed.
onCreatedCurrentCommitment(payload) ==
    IF update = Nil
    THEN [Locals EXCEPT !.err = ErrLedgerUpdateInvalidOperation]
    ELSE LET out == unwrapOutput(payload.output, FALSE,
                                 latestCommitment.CommitmentID)
         IN  IF out.err
             THEN [Locals EXCEPT !.err = ErrUnwrapCreated]
             ELSE [Locals EXCEPT !.update.Created =
                                    Append(update.Created, out.output)]

\* case *inx.LedgerUpdate_Created (ledger.go:105-115).
onCreated(payload) ==
    IF update = Nil
    THEN [Locals EXCEPT !.err = ErrLedgerUpdateInvalidOperation]
    ELSE LET out == unwrapOutput(payload.output, FALSE, latestCommitmentID)
         IN  IF out.err
             THEN [Locals EXCEPT !.err = ErrUnwrapCreated]
             ELSE [Locals EXCEPT !.update.Created =
                                    Append(update.Created, out.output)]

\* The type switch of the consumer function (ledger.go:54-118).
ledgerUpdateConsumerFunc(payload, consumerFails) ==
    CASE payload.op = "BEGIN" -> onBegin(payload)
      [] payload.op = "END" -> onEnd(payload, consumerFails)
      [] payload.op = "CONSUMED" -> onConsumed(payload)
      [] payload.op = "CREATED" -> onCreated(payload)

\* ------------------------------------------------------- ListenToStream
\* node_bridge.go:355-379, one iteration of the loop per action, with the
\* ledger-update consumer function as consumerFunc. ListenToLedgerUpdates
\* returns what the pump returns (ledger.go:119-124).

\* Mutant: on end-of-stream the open accumulator is flushed to the consumer.
RecvEOFFlush ==
    /\ result = Running
    /\ result' = Success
    /\ stop' = "eof"
    /\ delivered' = IF update # Nil THEN Append(delivered, update) ELSE delivered
    /\ UNCHANGED <<update, latestCommitmentID, ctxDone, received>>
    /\ UNCHANGED <<statusVars, lockVars, tangleVars, slotVars,
                   pumpVars, paramVars, powVars,
                   pluginVars,
                   readVars,
                   runVars,
                   callVars,
                   milestoneVars>>

\* receiverFunc returns io.EOF: break, return nil.
RecvEOF ==
    /\ result = Running
    /\ result' = Success
    /\ stop' = "eof"
    /\ UNCHANGED <<update, latestCommitmentID, delivered, ctxDone, received>>
    /\ UNCHANGED <<statusVars, lockVars, tangleVars, slotVars,
                   pumpVars, paramVars, powVars,
                   pluginVars,
                   readVars,
                   runVars,
                   callVars,
                   milestoneVars>>

\* receiverFunc returns a status with codes.Canceled: break, return nil.
RecvCanceled ==
    /\ result = Running
    /\ result' = Success
    /\ stop' = "canceled"
    /\ UNCHANGED <<update, latestCommitmentID, delivered, ctxDone, received>>
    /\ UNCHANGED <<statusVars, lockVars, tangleVars, slotVars,
                   pumpVars, paramVars, powVars,
                   pluginVars,
                   readVars,
                   runVars,
                   callVars,
                   milestoneVars>>

\* receiverFunc returns any other error: return err.
RecvError ==
    /\ result = Running
    /\ result' = ErrRecv
    /\ stop' = "recvErr"
    /\ UNCHANGED <<update, latestCommitmentID, delivered, ctxDone, received>>
    /\ UNCHANGED <<statusVars, lockVars, tangleVars, slotVars,
                   pumpVars, paramVars, powVars,
                   pluginVars,
                   readVars,
                   runVars,
                   callVars,
                   milestoneVars>>

\* receiverFunc returns an item: the context is checked, then the item is
\* handed to consumerFunc, whose error ends the pump.
RecvItem(payload, consumerFails) ==
    /\ result = Running
    /\ Len(received) < MaxRecords
    /\ IF ctxDone
       THEN /\ result' = Success
            /\ stop' = "ctx"
            /\ UNCHANGED <<update, latestCommitmentID, delivered, received>>
       ELSE LET r == ledgerUpdateConsumerFunc(payload, consumerFails)
            IN  /\ update' = r.update
                /\ latestCommitmentID' = r.latestCommitmentID
                /\ delivered' = r.delivered
                /\ received' = Append(received, payload)
                /\ result' = IF r.err = Success THEN Running ELSE r.err
                /\ stop' = IF r.err = Success THEN stop ELSE "consumerFunc"
    /\ UNCHANGED ctxDone
    /\ UNCHANGED <<statusVars, lockVars, tangleVars, slotVars,
                   pumpVars, paramVars, powVars,
                   pluginVars,
                   readVars,
                   runVars,
                   callVars,
                   milestoneVars>>

\* The governing context is cancelled or expires.
CancelContext ==
    /\ result = Running
    /\ ~ctxDone
    /\ ctxDone' = TRUE
    /\ UNCHANGED <<update, latestCommitmentID, delivered, result, received, stop>>
    /\ UNCHANGED <<statusVars, lockVars, tangleVars, slotVars,
                   pumpVars, paramVars, powVars,
                   pluginVars,
                   readVars,
                   runVars,
                   callVars,
                   milestoneVars>>

\* inx.Commitment of a node status: its ID and what its payload decodes to:
\* "ok", "bad" (UnwrapCommitment fails) or "none" (no payload).
INXCommitment(s, p) == [commitmentID |-> CommitmentIDOfSlot(s), payload |-> p]

\* Slots of the latest commitment in the status Connect applied.
ConnectSlots == {0, 1}

\* The bridge after Connect, which applied the node's first status, with
\* ListenToLedgerUpdates called and its stream opened (ledger.go:41-52).
LedgerInit ==
    /\ \E s \in ConnectSlots :
        /\ nodeStatus = [latest |-> INXCommitment(s, "ok"),
                         finalized |-> INXCommitment(0, "ok")]
        /\ latestCommitment = [CommitmentID |-> CommitmentIDOfSlot(s)]
        /\ committedSlot = s
    /\ latestFinalizedCommitment = [CommitmentID |-> CommitmentIDOfSlot(0)]
    /\ fired = <<>>
    /\ stored = [latest |-> FALSE, finalized |-> FALSE]
    /\ statusState = "ok"
    /\ baseline = Nil
    /\ update = Nil
    /\ latestCommitmentID = EmptyCommitmentID
    /\ delivered = <<>>
    /\ result = Running
    /\ ctxDone = FALSE
    /\ received = <<>>
    /\ stop = "none"
    /\ LockIdle
    /\ TangleIdle
    /\ SlotIdle
    /\ PumpIdle
    /\ ParamIdle
    /\ PowIdle
    /\ PluginIdle
    /\ ReadIdle
    /\ RunIdle
    /\ CallIdle
    /\ MilestoneIdle

LedgerNext ==
    \/ RecvEOF
    \/ RecvCanceled
    \/ RecvError
    \/ CancelContext
    \/ \E payload \in Payloads, consumerFails \in BOOLEAN :
          RecvItem(payload, consumerFails)

LedgerSpec == LedgerInit /\ [][LedgerNext]_vars

\* ==================================================== node-status cache
CommitmentPayloads == {"ok", "bad", "none"}
\* The *inx.NodeStatus messages of the node: the two commitments they carry.
NodeStatuses ==
    [latest : {INXCommitment(s, p) : s \in Slots, p \in CommitmentPayloads},
     finalized : {INXCommitment(s, p) : s \in Slots, p \in CommitmentPayloads}]

\* commitmentFromINXCommitment (part_013:17-32): (nil, nil) without a
\* payload, an error when the payload does not decode, else the Commitment.
commitmentFromINXCommitment(inxCommitment) ==
    IF inxCommitment.payload = "none"
    THEN [err |-> FALSE, commitment |-> Nil]
    ELSE IF inxCommitment.payload = "bad"
    THEN [err |-> TRUE, commitment |-> Nil]
    ELSE [err |-> FALSE,
          commitment |-> [CommitmentID |-> inxCommitment.commitmentID]]

\* Mutant: a commitment of the same slot replaces the cached one as well.
slotAdvancedOrEqual(incoming, cached) ==
    \/ nodeStatus = Nil
    \/ Slot(incoming.commitmentID) >= Slot(cached.commitmentID)

\* The guard of a replacement (part_008:236, 242): there is no snapshot
\* yet, or the incoming slot exceeds the slot of the cached snapshot's
\* commitment. cached is read only when nodeStatus is not Nil.
slotAdvanced(incoming, cached) ==
    \/ nodeStatus = Nil
    \/ Slot(incoming.commitmentID) > Slot(cached.commitmentID)

LatestCommitmentChanged == "LatestCommitmentChanged"
LatestFinalizedCommitmentChanged == "LatestFinalizedCommitmentChanged"

\* History of the stale-update claim, kept from the first applied update
\* on: the cached commitments right after it, whether every later update
\* carried a slot lower than or equal to the one before it, and whether a
\* change event was fired since. A field whose slots went up is forgotten.
BaselineAfter(incoming, newLatest, newFinalized, events) ==
    LET firedNow(e) == \E i \in 1..Len(events) : events[i].event = e
    IN  IF nodeStatus = Nil
        THEN [latest |-> newLatest, latestStale |-> TRUE, latestFired |-> FALSE,
              finalized |-> newFinalized, finalizedStale |-> TRUE,
              finalizedFired |-> FALSE]
        ELSE LET ls == baseline.latestStale /\
                       Slot(incoming.latest.commitmentID) <=
                           Slot(nodeStatus.latest.commitmentID)
                 fs == baseline.finalizedStale /\
                       Slot(incoming.finalized.commitmentID) <=
                           Slot(nodeStatus.finalized.commitmentID)
             IN  [latest |-> IF ls THEN baseline.latest ELSE Nil,
                  latestStale |-> ls,
                  latestFired |-> ls /\ (baseline.latestFired \/
                                         firedNow(LatestCommitmentChanged)),
                  finalized |-> IF fs THEN baseline.finalized ELSE Nil,
                  finalizedStale |-> fs,
                  finalizedFired |-> fs /\ (baseline.finalizedFired \/
                                            firedNow(LatestFinalizedCommitmentChanged))]

\* processNodeStatus (part_008:223-269), called by Connect with the status
\* it read (node_bridge.go:202-207) and then by the node-status stream for
\* every update (part_008:215). updateStatus runs under the write lock; the
\* events are triggered after it returned. stored tells which cache fields
\* the call assigned.
processNodeStatus(incoming) ==
    /\ statusState = "ok"
    /\ LET dl == commitmentFromINXCommitment(incoming.latest)
           df == commitmentFromINXCommitment(incoming.finalized)
           latestCommitmentChanged ==
               slotAdvanced(incoming.latest,
                            IF nodeStatus = Nil THEN Nil ELSE nodeStatus.latest)
               /\ ~dl.err
           latestFinalizedCommitmentChanged ==
               slotAdvanced(incoming.finalized,
                            IF nodeStatus = Nil THEN Nil ELSE nodeStatus.finalized)
               /\ ~df.err
           newLatest == IF latestCommitmentChanged
                        THEN dl.commitment ELSE latestCommitment
           newFinalized == IF latestFinalizedCommitmentChanged
                           THEN df.commitment ELSE latestFinalizedCommitment
           \* latestCommitment.CommitmentID.Slot() on a nil *Commitment
           panics == latestCommitmentChanged /\ dl.commitment = Nil
           events ==
               (IF latestCommitmentChanged
                THEN <<[event |-> LatestCommitmentChanged,
                        commitment |-> dl.commitment]>>
                ELSE <<>>)
               \o
               (IF latestFinalizedCommitmentChanged
                THEN <<[event |-> LatestFinalizedCommitmentChanged,
                        commitment |-> df.commitment]>>
                ELSE <<>>)
       IN  /\ latestCommitment' = newLatest
           /\ latestFinalizedCommitment' = newFinalized
           /\ nodeStatus' = incoming
           /\ stored' = [latest |-> latestCommitmentChanged,
                         finalized |-> latestFinalizedCommitmentChanged]
           /\ IF panics
              THEN /\ statusState' = "panic"
                   /\ fired' = <<>>
                   /\ UNCHANGED committedSlot
                   /\ baseline' = BaselineAfter(incoming, newLatest,
                                                newFinalized, <<>>)
              ELSE /\ statusState' = "ok"
                   /\ fired' = events
                   /\ committedSlot' =
                         IF latestCommitmentChanged
                         THEN Slot(dl.commitment.CommitmentID)
                         ELSE committedSlot
                   /\ baseline' = BaselineAfter(incoming, newLatest,
                                                newFinalized, events)
    /\ UNCHANGED <<ledgerVars, lockVars, tangleVars,
                   pumpVars, paramVars, powVars,
                   pluginVars,
                   runVars,
                   callVars,
                   milestoneVars>>

\* The bridge as New() returns it (node_bridge.go:150-160): no status yet.
StatusInit ==
    /\ nodeStatus = Nil
    /\ latestCommitment = Nil
    /\ latestFinalizedCommitment = Nil
    /\ fired = <<>>
    /\ stored = [latest |-> FALSE, finalized |-> FALSE]
    /\ committedSlot = 0
    /\ statusState = "ok"
    /\ baseline = Nil
    /\ update = Nil
    /\ latestCommitmentID = EmptyCommitmentID
    /\ delivered = <<>>
    /\ result = Running
    /\ ctxDone = FALSE
    /\ received = <<>>
    /\ stop = "none"
    /\ LockIdle
    /\ TangleIdle
    /\ SlotIdle
    /\ PumpIdle
    /\ ParamIdle
    /\ PowIdle
    /\ PluginIdle
    /\ ReadIdle
    /\ RunIdle
    /\ CallIdle
    /\ MilestoneIdle

StatusNext ==
    \E incoming \in NodeStatuses :
        processNodeStatus(incoming) /\ UNCHANGED <<slotVars, readVars,
                                                   runVars,
                                                   callVars,
                                                   milestoneVars>>

StatusSpec == StatusInit /\ [][StatusNext]_vars

\* ============================== processNodeStatus against the read lock
\* processNodeStatus step by step: updateStatus takes the write lock of
\* nodeStatusMutex, assigns the cache and releases the lock on return
\* (deferred, part_008:232-233); the events are triggered afterwards on the
\* same goroutine, and Trigger runs the hooked handler before it returns.
\* The handler calls one of the accessors NodeStatus, LatestCommitment or
\* LatestFinalizedCommitment (part_008:176-202). A second goroutine calls
\* the accessors at any time. sync.RWMutex: Lock waits for the readers to
\* leave, RLock waits while a writer holds the lock or waits for it.

\* The statuses of the node whose commitments decode.
LockStatuses == {st \in NodeStatuses :
                    st.latest.payload = "ok" /\ st.finalized.payload = "ok"}

\* The status stream hands a status to processNodeStatus, which calls
\* updateStatus, which calls Lock (part_008:223-232).
processNodeStatusCall(incoming) ==
    /\ statusState = "ok"
    /\ statusPc = "idle"
    /\ statusPc' = "Lock"
    /\ pendingStatus' = incoming
    /\ changed' = [latest |-> FALSE, finalized |-> FALSE]
    /\ decoded' = [latest |-> Nil, finalized |-> Nil]
    /\ fired' = <<>>
    /\ UNCHANGED <<nodeStatus, latestCommitment, latestFinalizedCommitment,
                   stored, committedSlot, statusState, baseline>>
    /\ UNCHANGED <<nodeStatusMutex, handlerPc, readerPc>>
    /\ UNCHANGED <<ledgerVars, tangleVars, slotVars,
                   pumpVars, paramVars, powVars,
                   pluginVars,
                   readVars,
                   runVars,
                   callVars,
                   milestoneVars>>

\* n.nodeStatusMutex.Lock() returns (part_008:232).
updateStatusLock ==
    /\ statusPc = "Lock"
    /\ ~nodeStatusMutex.writer
    /\ nodeStatusMutex.readers = 0
    /\ nodeStatusMutex' = [nodeStatusMutex EXCEPT !.writer = TRUE]
    /\ statusPc' = "updateLatest"
    /\ UNCHANGED <<pendingStatus, changed, decoded, handlerPc, readerPc>>
    /\ UNCHANGED <<statusVars, ledgerVars, tangleVars, slotVars,
                   pumpVars, paramVars, powVars,
                   pluginVars,
                   readVars,
                   runVars,
                   callVars,
                   milestoneVars>>

\* The latest commitment is compared, decoded and assigned (part_008:236-241).
updateStatusLatest ==
    /\ statusPc = "updateLatest"
    /\ LET dl == commitmentFromINXCommitment(pendingStatus.latest)
           replace == slotAdvanced(pendingStatus.latest,
                          IF nodeStatus = Nil THEN Nil ELSE nodeStatus.latest)
       IN  /\ decoded' = IF replace
                         THEN [decoded EXCEPT !.latest = dl.commitment]
                         ELSE decoded
           /\ changed' = [changed EXCEPT !.latest = replace /\ ~dl.err]
           /\ latestCommitment' = IF replace /\ ~dl.err
                                  THEN dl.commitment ELSE latestCommitment
    /\ statusPc' = "updateFinalized"
    /\ UNCHANGED <<nodeStatus, latestFinalizedCommitment, fired, stored,
                   committedSlot, statusState, baseline>>
    /\ UNCHANGED <<nodeStatusMutex, pendingStatus, handlerPc, readerPc>>
    /\ UNCHANGED <<ledgerVars, tangleVars, slotVars,
                   pumpVars, paramVars, powVars,
                   pluginVars,
                   readVars,
                   runVars,
                   callVars,
                   milestoneVars>>

\* The latest finalized commitment likewise (part_008:242-247).
updateStatusFinalized ==
    /\ statusPc = "updateFinalized"
    /\ LET df == commitmentFromINXCommitment(pendingStatus.finalized)
           replace == slotAdvanced(pendingStatus.finalized,
                          IF nodeStatus = Nil THEN Nil ELSE nodeStatus.finalized)
       IN  /\ decoded' = IF replace
                         THEN [decoded EXCEPT !.finalized = df.commitment]
                         ELSE decoded
           /\ changed' = [changed EXCEPT !.finalized = replace /\ ~df.err]
           /\ latestFinalizedCommitment' =
                 IF replace /\ ~df.err
                 THEN df.commitment ELSE latestFinalizedCommitment
    /\ statusPc' = "updateSnapshot"
    /\ UNCHANGED <<nodeStatus, latestCommitment, fired, stored,
                   committedSlot, statusState, baseline>>
    /\ UNCHANGED <<nodeStatusMutex, pendingStatus, handlerPc, readerPc>>
    /\ UNCHANGED <<ledgerVars, tangleVars, slotVars,
                   pumpVars, paramVars, powVars,
                   pluginVars,
                   readVars,
                   runVars,
                   callVars,
                   milestoneVars>>

\* Mutant: the snapshot is replaced only by an update that replaced a
\* commitment.
updateStatusSnapshotIfChanged ==
    /\ statusPc = "updateSnapshot"
    /\ nodeStatus' = IF changed.latest \/ changed.finalized
                     THEN pendingStatus ELSE nodeStatus
    /\ statusPc' = "Unlock"
    /\ UNCHANGED <<latestCommitment, latestFinalizedCommitment, fired, stored,
                   committedSlot, statusState, baseline>>
    /\ UNCHANGED <<nodeStatusMutex, pendingStatus, changed, decoded,
                   handlerPc, readerPc>>
    /\ UNCHANGED <<ledgerVars, tangleVars, slotVars, pumpVars, paramVars,
                   powVars, pluginVars, readVars,
                   runVars,
                   callVars,
                   milestoneVars>>

\* n.nodeStatus = nodeStatus (part_008:248).
updateStatusSnapshot ==
    /\ statusPc = "updateSnapshot"
    /\ nodeStatus' = pendingStatus
    /\ statusPc' = "Unlock"
    /\ UNCHANGED <<latestCommitment, latestFinalizedCommitment, fired, stored,
                   committedSlot, statusState, baseline>>
    /\ UNCHANGED <<nodeStatusMutex, pendingStatus, changed, decoded,
                   handlerPc, readerPc>>
    /\ UNCHANGED <<ledgerVars, tangleVars, slotVars,
                   pumpVars, paramVars, powVars,
                   pluginVars,
                   readVars,
                   runVars,
                   callVars,
                   milestoneVars>>

\* Mutant: the write lock is kept until processNodeStatus returns, so the
\* events are triggered inside the critical section.
updateStatusKeepLock ==
    /\ statusPc = "Unlock"
    /\ statusPc' = "triggerLatest"
    /\ UNCHANGED <<nodeStatusMutex, pendingStatus, changed, decoded,
                   handlerPc, readerPc>>
    /\ UNCHANGED <<statusVars, ledgerVars, tangleVars, slotVars,
                   pumpVars, paramVars, powVars,
                   pluginVars,
                   readVars,
                   runVars,
                   callVars,
                   milestoneVars>>

\* updateStatus returns and its deferred Unlock runs (part_008:233, 250).
updateStatusUnlock ==
    /\ statusPc = "Unlock"
    /\ nodeStatusMutex' = [nodeStatusMutex EXCEPT !.writer = FALSE]
    /\ statusPc' = "triggerLatest"
    /\ UNCHANGED <<pendingStatus, changed, decoded, handlerPc, readerPc>>
    /\ UNCHANGED <<statusVars, ledgerVars, tangleVars, slotVars,
                   pumpVars, paramVars, powVars,
                   pluginVars,
                   readVars,
                   runVars,
                   callVars,
                   milestoneVars>>

\* part_008:257-262. Trigger calls the handler, which calls an accessor.
triggerLatestCommitmentChanged ==
    /\ statusPc = "triggerLatest"
    /\ IF ~changed.latest
       THEN /\ statusPc' = "triggerFinalized"
            /\ UNCHANGED <<fired, committedSlot, statusState, handlerPc>>
       ELSE IF decoded.latest = Nil
       THEN /\ statusState' = "panic"
            /\ statusPc' = "panic"
            /\ UNCHANGED <<fired, committedSlot, handlerPc>>
       ELSE /\ committedSlot' = Slot(decoded.latest.CommitmentID)
            /\ fired' = Append(fired, [event |-> LatestCommitmentChanged,
                                       commitment |-> decoded.latest])
            /\ handlerPc' = "RLock"
            /\ statusPc' = "inLatestHandler"
            /\ UNCHANGED statusState
    /\ UNCHANGED <<nodeStatus, latestCommitment, latestFinalizedCommitment,
                   stored, baseline>>
    /\ UNCHANGED <<nodeStatusMutex, pendingStatus, changed, decoded, readerPc>>
    /\ UNCHANGED <<ledgerVars, tangleVars, slotVars,
                   pumpVars, paramVars, powVars,
                   pluginVars,
                   readVars,
                   runVars,
                   callVars,
                   milestoneVars>>

\* part_008:264-266, after which processNodeStatus returns.
triggerLatestFinalizedCommitmentChanged ==
    /\ statusPc = "triggerFinalized"
    /\ IF ~changed.finalized
       THEN /\ statusPc' = "idle"
            /\ UNCHANGED <<fired, handlerPc>>
       ELSE /\ fired' = Append(fired, [event |-> LatestFinalizedCommitmentChanged,
                                       commitment |-> decoded.finalized])
            /\ handlerPc' = "RLock"
            /\ statusPc' = "inFinalizedHandler"
    /\ UNCHANGED <<nodeStatus, latestCommitment, latestFinalizedCommitment,
                   stored, committedSlot, statusState, baseline>>
    /\ UNCHANGED <<nodeStatusMutex, pendingStatus, changed, decoded, readerPc>>
    /\ UNCHANGED <<ledgerVars, tangleVars, slotVars,
                   pumpVars, paramVars, powVars,
                   pluginVars,
                   readVars,
                   runVars,
                   callVars,
                   milestoneVars>>

\* The handler's accessor takes the read lock (part_008:177, 190, 198).
handlerRLock ==
    /\ handlerPc = "RLock"
    /\ ~nodeStatusMutex.writer
    /\ statusPc # "Lock"
    /\ nodeStatusMutex' = [nodeStatusMutex EXCEPT !.readers = @ + 1]
    /\ handlerPc' = "RUnlock"
    /\ UNCHANGED <<statusPc, pendingStatus, changed, decoded, readerPc>>
    /\ UNCHANGED <<statusVars, ledgerVars, tangleVars, slotVars,
                   pumpVars, paramVars, powVars,
                   pluginVars,
                   readVars,
                   runVars,
                   callVars,
                   milestoneVars>>

\* The accessor returns, its deferred RUnlock runs (part_008:178, 191, 199),
\* the handler returns and so does Trigger.
handlerRUnlock ==
    /\ handlerPc = "RUnlock"
    /\ nodeStatusMutex' = [nodeStatusMutex EXCEPT !.readers = @ - 1]
    /\ handlerPc' = "none"
    /\ statusPc' = IF statusPc = "inLatestHandler"
                   THEN "triggerFinalized" ELSE "idle"
    /\ UNCHANGED <<pendingStatus, changed, decoded, readerPc>>
    /\ UNCHANGED <<statusVars, ledgerVars, tangleVars, slotVars,
                   pumpVars, paramVars, powVars,
                   pluginVars,
                   readVars,
                   runVars,
                   callVars,
                   milestoneVars>>

\* Mutant: the accessor reads without waiting for the writer.
accessorRLockNoWait ==
    /\ readerPc = "idle"
    /\ nodeStatusMutex' = [nodeStatusMutex EXCEPT !.readers = @ + 1]
    /\ readerPc' = "reading"
    /\ UNCHANGED <<statusPc, pendingStatus, changed, decoded, handlerPc>>
    /\ UNCHANGED <<statusVars, ledgerVars, tangleVars, slotVars, pumpVars,
                   paramVars, powVars, pluginVars, readVars,
                   runVars,
                   callVars,
                   milestoneVars>>

\* Another goroutine enters an accessor.
accessorRLock ==
    /\ readerPc = "idle"
    /\ ~nodeStatusMutex.writer
    /\ statusPc # "Lock"
    /\ nodeStatusMutex' = [nodeStatusMutex EXCEPT !.readers = @ + 1]
    /\ readerPc' = "reading"
    /\ UNCHANGED <<statusPc, pendingStatus, changed, decoded, handlerPc>>
    /\ UNCHANGED <<statusVars, ledgerVars, tangleVars, slotVars,
                   pumpVars, paramVars, powVars,
                   pluginVars,
                   readVars,
                   runVars,
                   callVars,
                   milestoneVars>>

\* ... and leaves it.
accessorRUnlock ==
    /\ readerPc = "reading"
    /\ nodeStatusMutex' = [nodeStatusMutex EXCEPT !.readers = @ - 1]
    /\ readerPc' = "idle"
    /\ UNCHANGED <<statusPc, pendingStatus, changed, decoded, handlerPc>>
    /\ UNCHANGED <<statusVars, ledgerVars, tangleVars, slotVars,
                   pumpVars, paramVars, powVars,
                   pluginVars,
                   readVars,
                   runVars,
                   callVars,
                   milestoneVars>>

StatusLockNext ==
    \/ \E incoming \in LockStatuses : processNodeStatusCall(incoming)
    \/ updateStatusLock
    \/ updateStatusLatest
    \/ updateStatusFinalized
    \/ updateStatusSnapshot
    \/ updateStatusUnlock
    \/ triggerLatestCommitmentChanged
    \/ triggerLatestFinalizedCommitmentChanged
    \/ handlerRLock
    \/ handlerRUnlock
    \/ accessorRLock
    \/ accessorRUnlock

StatusLockSpec == StatusInit /\ [][StatusLockNext]_vars

\* ======================================================= TangleListener
\* Largest number of acceptance records the node sends on the stream.
MaxStreamRecords == 2

\* api.BlockState values that count as accepted (tangle_listener.go:72-73).
AcceptedStates == {"accepted", "confirmed", "finalized"}
NotFound == "NotFound"
ErrQuery == "BlockMetadata error"
ErrAlreadyRegistered == "ErrAlreadyRegistered"

\* What BlockMetadata returns for a block in the given node state: any
\* call may fail; an unknown block is reported as codes.NotFound; a known
\* one with its state, which for an accepted block may have moved on.
QueryOutcomes(state) ==
    {ErrQuery} \cup
    (IF state = "unknown" THEN {NotFound}
     ELSE IF state = "pending" THEN {"pending"}
     ELSE AcceptedStates)

Has(callbacks, blockID) == blockID \in DOMAIN callbacks
Delete(callbacks, blockID) ==
    [b \in DOMAIN callbacks \ {blockID} |-> callbacks[b]]

\* Mutant: a second registration replaces the pending callback.
registerOverwrite(callbacks, blockID, f) ==
    [err |-> Success,
     callbacks |-> [b \in DOMAIN callbacks \cup {blockID} |->
                        IF b = blockID THEN f ELSE callbacks[b]]]

\* registerBlockAcceptedCallback (tangle_listener.go:81-91).
registerBlockAcceptedCallback(callbacks, blockID, f) ==
    IF Has(callbacks, blockID)
    THEN [err |-> ErrAlreadyRegistered, callbacks |-> callbacks]
    ELSE [err |-> Success,
          callbacks |-> [b \in DOMAIN callbacks \cup {blockID} |->
                            IF b = blockID THEN f ELSE callbacks[b]]]

\* Mutant: the callback stays in the map after it was started.
triggerKeepEntry(callbacks, blockID) ==
    IF Has(callbacks, blockID)
    THEN [callbacks |-> callbacks, started |-> {callbacks[blockID]},
          lock |-> "free"]
    ELSE [callbacks |-> callbacks, started |-> {}, lock |-> "free"]

\* Mutant: the callback is called on the triggering thread, which holds the
\* lock while the callback runs.
triggerSynchronous(callbacks, blockID) ==
    IF Has(callbacks, blockID)
    THEN [callbacks |-> Delete(callbacks, blockID),
          started |-> {callbacks[blockID]}, lock |-> "held"]
    ELSE [callbacks |-> callbacks, started |-> {}, lock |-> "free"]

\* triggerBlockAcceptedCallback (tangle_listener.go:107-114): under the
\* lock, a callback found for the block is started in a goroutine of its
\* own and deleted; the lock is released on return.
triggerBlockAcceptedCallback(callbacks, blockID) ==
    IF Has(callbacks, blockID)
    THEN [callbacks |-> Delete(callbacks, blockID),
          started |-> {callbacks[blockID]}, lock |-> "free"]
    ELSE [callbacks |-> callbacks, started |-> {}, lock |-> "free"]

\* Mutant: a failed query takes the callback out of the map again.
blockMetadataFailedDeregister(callbacks, blockID, outcome) ==
    IF outcome = NotFound
    THEN [ret |-> Success, callbacks |-> callbacks]
    ELSE [ret |-> outcome, callbacks |-> Delete(callbacks, blockID)]

\* RegisterBlockAcceptedCallback when BlockMetadata returned an error
\* (tangle_listener.go:61-69): nil for codes.NotFound, else the error.
blockMetadataFailed(callbacks, blockID, outcome) ==
    IF outcome = NotFound
    THEN [ret |-> Success, callbacks |-> callbacks]
    ELSE [ret |-> outcome, callbacks |-> callbacks]

\* Mutant: the state the query reports is ignored.
synthesizeNever(callbacks, blockID, state) ==
    [callbacks |-> callbacks, started |-> {}, lock |-> "free"]

\* RegisterBlockAcceptedCallback with the metadata it queried
\* (tangle_listener.go:71-76).
synthesizeIfAccepted(callbacks, blockID, state) ==
    IF state \in AcceptedStates
    THEN triggerBlockAcceptedCallback(callbacks, blockID)
    ELSE [callbacks |-> callbacks, started |-> {}, lock |-> "free"]

\* go f(metadata) for the callbacks in started.
Started(started) ==
    /\ invoked' = [c \in CallerIDs |->
                      IF c \in started THEN invoked[c] + 1 ELSE invoked[c]]
    /\ running' = [c \in CallerIDs |-> running[c] \/ c \in started]

\* ---- the node
\* The node receives a block.
NodeAttachesBlock(b) ==
    /\ nodeBlocks[b] = "unknown"
    /\ nodeBlocks' = [nodeBlocks EXCEPT ![b] = "pending"]
    /\ UNCHANGED <<acceptedStream, emitted, listenerState, deliveries,
                   blockAcceptedCallbacks, blockAcceptedCallbacksLock, callers,
                   invoked, running, removed, blockAcceptedListeners>>
    /\ UNCHANGED <<statusVars, ledgerVars, lockVars, slotVars,
                   pumpVars, paramVars, powVars,
                   pluginVars,
                   readVars,
                   runVars,
                   callVars,
                   milestoneVars>>

\* The node accepts a block and sends its acceptance record on the stream.
NodeAcceptsBlock(b) ==
    /\ nodeBlocks[b] = "pending"
    /\ emitted < MaxStreamRecords
    /\ nodeBlocks' = [nodeBlocks EXCEPT ![b] = "accepted"]
    /\ acceptedStream' = Append(acceptedStream, b)
    /\ emitted' = emitted + 1
    /\ UNCHANGED <<listenerState, deliveries,
                   blockAcceptedCallbacks, blockAcceptedCallbacksLock, callers,
                   invoked, running, removed, blockAcceptedListeners>>
    /\ UNCHANGED <<statusVars, ledgerVars, lockVars, slotVars,
                   pumpVars, paramVars, powVars,
                   pluginVars,
                   readVars,
                   runVars,
                   callVars,
                   milestoneVars>>

\* The node sends the record of an accepted block once more.
NodeEmitsDuplicate(b) ==
    /\ nodeBlocks[b] = "accepted"
    /\ emitted < MaxStreamRecords
    /\ acceptedStream' = Append(acceptedStream, b)
    /\ emitted' = emitted + 1
    /\ UNCHANGED <<nodeBlocks, listenerState, deliveries,
                   blockAcceptedCallbacks, blockAcceptedCallbacksLock, callers,
                   invoked, running, removed, blockAcceptedListeners>>
    /\ UNCHANGED <<statusVars, ledgerVars, lockVars, slotVars,
                   pumpVars, paramVars, powVars,
                   pluginVars,
                   readVars,
                   runVars,
                   callVars,
                   milestoneVars>>

\* ---- valuenotifier.Notifier of hive.go, as blockAcceptedNotifier uses it
\* Listener(key) hands out a new listener registered under the key.
NotifierListener(listeners, l, blockID) ==
    [listeners EXCEPT ![l].state = "registered", ![l].blockID = blockID]
\* Notify(key) signals every listener registered under the key and leaves
\* all of them registered.
Notify(listeners, blockID) ==
    [l \in DOMAIN listeners |->
        IF listeners[l].state = "registered" /\ listeners[l].blockID = blockID
        THEN [listeners[l] EXCEPT !.signalled = TRUE]
        ELSE listeners[l]]
\* Listener.Deregister() removes that listener.
ListenerDeregister(listeners, l) ==
    [listeners EXCEPT ![l].state = "deregistered"]
\* History: a delivery for the block took place while these listeners were
\* registered for it.
Witnessed(listeners, before, blockID) ==
    [l \in DOMAIN listeners |->
        IF before[l].state = "registered" /\ before[l].blockID = blockID
        THEN [listeners[l] EXCEPT !.witnessed = TRUE]
        ELSE listeners[l]]

\* ---- listenToAcceptedBlocks (tangle_listener.go:176-201)
\* Mutant: the consumer function does not notify the listeners.
listenToAcceptedBlocksRecvNoNotify(unwrapFails) ==
    /\ listenerState = "running"
    /\ acceptedStream # <<>>
    /\ acceptedStream' = Tail(acceptedStream)
    /\ IF unwrapFails
       THEN /\ listenerState' = "failed"
            /\ UNCHANGED <<deliveries, blockAcceptedCallbacks,
                           blockAcceptedCallbacksLock, invoked, running,
                           blockAcceptedListeners>>
       ELSE /\ blockAcceptedCallbacksLock = "free"
            /\ LET blockID == Head(acceptedStream)
                   r == triggerBlockAcceptedCallback(blockAcceptedCallbacks, blockID)
               IN  /\ blockAcceptedCallbacks' = r.callbacks
                   /\ blockAcceptedCallbacksLock' = r.lock
                   /\ Started(r.started)
                   /\ blockAcceptedListeners' =
                         Witnessed(blockAcceptedListeners,
                                   blockAcceptedListeners, blockID)
                   /\ deliveries' = [deliveries EXCEPT ![blockID] = @ + 1]
            /\ UNCHANGED listenerState
    /\ UNCHANGED <<nodeBlocks, emitted, callers, removed>>
    /\ UNCHANGED <<statusVars, ledgerVars, lockVars, slotVars,
                   pumpVars, paramVars, powVars,
                   pluginVars,
                   readVars,
                   runVars,
                   callVars,
                   milestoneVars>>

\* The pump receives a record and hands it to the consumer function
\* (node_bridge.go:355-379, tangle_listener.go:184-195): a record that
\* does not unwrap ends the listener with an error; else the one-shot
\* callback of the block is triggered, the listeners of the block are
\* notified and Events.BlockAccepted, which has no hook here, is triggered.
listenToAcceptedBlocksRecv(unwrapFails) ==
    /\ listenerState = "running"
    /\ acceptedStream # <<>>
    /\ acceptedStream' = Tail(acceptedStream)
    /\ IF unwrapFails
       THEN /\ listenerState' = "failed"
            /\ UNCHANGED <<deliveries, blockAcceptedCallbacks,
                           blockAcceptedCallbacksLock, invoked, running,
                           blockAcceptedListeners>>
       ELSE /\ blockAcceptedCallbacksLock = "free"
            /\ LET blockID == Head(acceptedStream)
                   r == triggerBlockAcceptedCallback(blockAcceptedCallbacks, blockID)
               IN  /\ blockAcceptedCallbacks' = r.callbacks
                   /\ blockAcceptedCallbacksLock' = r.lock
                   /\ Started(r.started)
                   /\ blockAcceptedListeners' =
                         Witnessed(Notify(blockAcceptedListeners, blockID),
                                   blockAcceptedListeners, blockID)
                   /\ deliveries' = [deliveries EXCEPT ![blockID] = @ + 1]
            /\ UNCHANGED listenerState
    /\ UNCHANGED <<nodeBlocks, emitted, callers, removed>>
    /\ UNCHANGED <<statusVars, ledgerVars, lockVars, slotVars,
                   pumpVars, paramVars, powVars,
                   pluginVars,
                   readVars,
                   runVars,
                   callVars,
                   milestoneVars>>

\* The stream ends, is cancelled or fails, or the context is done: the
\* pump returns and the listener stops (node_bridge.go:358-371).
listenToAcceptedBlocksStop ==
    /\ listenerState = "running"
    /\ listenerState' = "stopped"
    /\ UNCHANGED <<nodeBlocks, acceptedStream, emitted, deliveries,
                   blockAcceptedCallbacks, blockAcceptedCallbacksLock, callers,
                   invoked, running, removed, blockAcceptedListeners>>
    /\ UNCHANGED <<statusVars, ledgerVars, lockVars, slotVars,
                   pumpVars, paramVars, powVars,
                   pluginVars,
                   readVars,
                   runVars,
                   callVars,
                   milestoneVars>>

\* ---- RegisterBlockAcceptedCallback (tangle_listener.go:56-79)
\* The call and its registerBlockAcceptedCallback (lines 57-59), made by
\* the application or from inside a callback that is running.
RegisterBlockAcceptedCallback(c, blockID, origin) ==
    /\ callers[c].pc = "idle"
    /\ origin = "app" \/ (origin \in CallerIDs /\ running[origin])
    /\ blockAcceptedCallbacksLock = "free"
    /\ LET r == registerBlockAcceptedCallback(blockAcceptedCallbacks, blockID, c)
       IN  /\ blockAcceptedCallbacks' = r.callbacks
           /\ callers' = [callers EXCEPT ![c] =
                 IF r.err = Success
                 THEN [pc |-> "BlockMetadata", blockID |-> blockID,
                       origin |-> origin, metadata |-> "-", ret |-> "-"]
                 ELSE [pc |-> "returned", blockID |-> blockID,
                       origin |-> origin, metadata |-> "-", ret |-> r.err]]
    /\ UNCHANGED <<nodeBlocks, acceptedStream, emitted, listenerState,
                   deliveries, blockAcceptedCallbacksLock, invoked, running,
                   removed, blockAcceptedListeners>>
    /\ UNCHANGED <<statusVars, ledgerVars, lockVars, slotVars,
                   pumpVars, paramVars, powVars,
                   pluginVars,
                   readVars,
                   runVars,
                   callVars,
                   milestoneVars>>

\* BlockMetadata returns (lines 61-69): an error ends the call.
BlockMetadataReturns(c, outcome) ==
    /\ callers[c].pc = "BlockMetadata"
    /\ outcome \in QueryOutcomes(nodeBlocks[callers[c].blockID])
    /\ IF outcome \in {NotFound, ErrQuery}
       THEN LET r == blockMetadataFailed(blockAcceptedCallbacks,
                                         callers[c].blockID, outcome)
            IN  /\ blockAcceptedCallbacks' = r.callbacks
                /\ callers' = [callers EXCEPT ![c].pc = "returned",
                                              ![c].metadata = outcome,
                                              ![c].ret = r.ret]
       ELSE /\ callers' = [callers EXCEPT ![c].pc = "checkState",
                                          ![c].metadata = outcome]
            /\ UNCHANGED blockAcceptedCallbacks
    /\ UNCHANGED <<nodeBlocks, acceptedStream, emitted, listenerState,
                   deliveries, blockAcceptedCallbacksLock, invoked, running,
                   removed, blockAcceptedListeners>>
    /\ UNCHANGED <<statusVars, ledgerVars, lockVars, slotVars,
                   pumpVars, paramVars, powVars,
                   pluginVars,
                   readVars,
                   runVars,
                   callVars,
                   milestoneVars>>

\* The state of the metadata is looked at and the call returns nil
\* (lines 71-78).
RegisterBlockAcceptedCallbackReturns(c) ==
    /\ callers[c].pc = "checkState"
    /\ blockAcceptedCallbacksLock = "free"
    /\ LET r == synthesizeIfAccepted(blockAcceptedCallbacks,
                                     callers[c].blockID, callers[c].metadata)
       IN  /\ blockAcceptedCallbacks' = r.callbacks
           /\ blockAcceptedCallbacksLock' = r.lock
           /\ Started(r.started)
    /\ callers' = [callers EXCEPT ![c].pc = "returned", ![c].ret = Success]
    /\ UNCHANGED <<nodeBlocks, acceptedStream, emitted, listenerState,
                   deliveries, removed, blockAcceptedListeners>>
    /\ UNCHANGED <<statusVars, ledgerVars, lockVars, slotVars,
                   pumpVars, paramVars, powVars,
                   pluginVars,
                   readVars,
                   runVars,
                   callVars,
                   milestoneVars>>

\* DeregisterBlockAcceptedCallback (tangle_listener.go:93-98).
DeregisterBlockAcceptedCallback(blockID) ==
    /\ blockAcceptedCallbacksLock = "free"
    /\ Has(blockAcceptedCallbacks, blockID)
    /\ blockAcceptedCallbacks' = Delete(blockAcceptedCallbacks, blockID)
    /\ removed' = [removed EXCEPT ![blockAcceptedCallbacks[blockID]] = TRUE]
    /\ UNCHANGED <<nodeBlocks, acceptedStream, emitted, listenerState,
                   deliveries, blockAcceptedCallbacksLock, callers, invoked,
                   running, blockAcceptedListeners>>
    /\ UNCHANGED <<statusVars, ledgerVars, lockVars, slotVars,
                   pumpVars, paramVars, powVars,
                   pluginVars,
                   readVars,
                   runVars,
                   callVars,
                   milestoneVars>>

\* ClearBlockAcceptedCallbacks (tangle_listener.go:100-105).
ClearBlockAcceptedCallbacks ==
    /\ blockAcceptedCallbacksLock = "free"
    /\ blockAcceptedCallbacks # <<>>
    /\ blockAcceptedCallbacks' = <<>>
    /\ removed' = [c \in CallerIDs |->
                      removed[c] \/ \E b \in DOMAIN blockAcceptedCallbacks :
                                        blockAcceptedCallbacks[b] = c]
    /\ UNCHANGED <<nodeBlocks, acceptedStream, emitted, listenerState,
                   deliveries, blockAcceptedCallbacksLock, callers, invoked,
                   running, blockAcceptedListeners>>
    /\ UNCHANGED <<statusVars, ledgerVars, lockVars, slotVars,
                   pumpVars, paramVars, powVars,
                   pluginVars,
                   readVars,
                   runVars,
                   callVars,
                   milestoneVars>>

\* A callback returns and its goroutine ends; one that blocks never does.
CallbackReturns(c) ==
    /\ running[c]
    /\ running' = [running EXCEPT ![c] = FALSE]
    /\ UNCHANGED <<nodeBlocks, acceptedStream, emitted, listenerState,
                   deliveries, blockAcceptedCallbacks,
                   blockAcceptedCallbacksLock, callers, invoked, removed,
                   blockAcceptedListeners>>
    /\ UNCHANGED <<statusVars, ledgerVars, lockVars, slotVars,
                   pumpVars, paramVars, powVars,
                   pluginVars,
                   readVars,
                   runVars,
                   callVars,
                   milestoneVars>>

NodeNext ==
    \/ \E b \in BlockIDs : NodeAttachesBlock(b)
    \/ \E b \in BlockIDs : NodeAcceptsBlock(b)
    \/ \E b \in BlockIDs : NodeEmitsDuplicate(b)
    \/ \E unwrapFails \in BOOLEAN : listenToAcceptedBlocksRecv(unwrapFails)
    \/ listenToAcceptedBlocksStop

BlockAcceptedCallbackNext ==
    \/ NodeNext
    \/ \E c \in CallerIDs, b \in BlockIDs, origin \in {"app"} \cup CallerIDs :
          RegisterBlockAcceptedCallback(c, b, origin)
    \/ \E c \in CallerIDs, outcome \in {NotFound, ErrQuery, "pending"} \cup AcceptedStates :
          BlockMetadataReturns(c, outcome)
    \/ \E c \in CallerIDs : RegisterBlockAcceptedCallbackReturns(c)
    \/ \E b \in BlockIDs : DeregisterBlockAcceptedCallback(b)
    \/ ClearBlockAcceptedCallbacks
    \/ \E c \in CallerIDs : CallbackReturns(c)

BlockAcceptedCallbackSpec == StatusInit /\ [][BlockAcceptedCallbackNext]_vars

\* The registry with one registration, and a listener that goes on
\* consuming the records in flight for as long as it runs.
FairCallerIDs == {"c1"}

BlockAcceptedCallbackFairNext ==
    \/ NodeNext
    \/ \E c \in FairCallerIDs, b \in BlockIDs :
          RegisterBlockAcceptedCallback(c, b, "app")
    \/ \E c \in FairCallerIDs, outcome \in {NotFound, ErrQuery, "pending"} \cup AcceptedStates :
          BlockMetadataReturns(c, outcome)
    \/ \E c \in FairCallerIDs : RegisterBlockAcceptedCallbackReturns(c)
    \/ \E b \in BlockIDs : DeregisterBlockAcceptedCallback(b)
    \/ ClearBlockAcceptedCallbacks
    \/ \E c \in FairCallerIDs : CallbackReturns(c)

BlockAcceptedCallbackFairSpec ==
    /\ StatusInit
    /\ [][BlockAcceptedCallbackFairNext]_vars
    /\ WF_vars(\E unwrapFails \in BOOLEAN : listenToAcceptedBlocksRecv(unwrapFails))

\* ---- RegisterBlockAcceptedEvent (tangle_listener.go:116-143)
\* Mutant: a failed query leaves the listener registered.
blockAcceptedEventQueryFailedKeepListener(listeners, l, outcome) ==
    IF outcome = NotFound
    THEN [ret |-> Success, handle |-> TRUE, listeners |-> listeners]
    ELSE [ret |-> outcome, handle |-> FALSE, listeners |-> listeners]

\* RegisterBlockAcceptedEvent when BlockMetadata returned an error (lines
\* 120-133): the listener is returned for codes.NotFound; for any other
\* error the listener is deregistered and nil is returned with the error.
blockAcceptedEventQueryFailed(listeners, l, outcome) ==
    IF outcome = NotFound
    THEN [ret |-> Success, handle |-> TRUE, listeners |-> listeners]
    ELSE [ret |-> outcome, handle |-> FALSE,
          listeners |-> ListenerDeregister(listeners, l)]

\* The call and its blockAcceptedNotifier.Listener(blockID) (line 117).
RegisterBlockAcceptedEvent(l, blockID) ==
    /\ blockAcceptedListeners[l].pc = "idle"
    /\ blockAcceptedListeners' =
          [NotifierListener(blockAcceptedListeners, l, blockID)
              EXCEPT ![l].pc = "BlockMetadata"]
    /\ UNCHANGED <<nodeBlocks, acceptedStream, emitted, listenerState,
                   deliveries, blockAcceptedCallbacks,
                   blockAcceptedCallbacksLock, callers, invoked, running,
                   removed>>
    /\ UNCHANGED <<statusVars, ledgerVars, lockVars, slotVars,
                   pumpVars, paramVars, powVars,
                   pluginVars,
                   readVars,
                   runVars,
                   callVars,
                   milestoneVars>>

\* BlockMetadata returns (lines 119-133): an error ends the call.
EventBlockMetadataReturns(l, outcome) ==
    /\ blockAcceptedListeners[l].pc = "BlockMetadata"
    /\ outcome \in QueryOutcomes(nodeBlocks[blockAcceptedListeners[l].blockID])
    /\ IF outcome \in {NotFound, ErrQuery}
       THEN LET r == blockAcceptedEventQueryFailed(blockAcceptedListeners,
                                                   l, outcome)
            IN  blockAcceptedListeners' =
                   [r.listeners EXCEPT ![l].pc = "returned",
                                       ![l].metadata = outcome,
                                       ![l].ret = r.ret,
                                       ![l].handle = r.handle]
       ELSE blockAcceptedListeners' =
               [blockAcceptedListeners EXCEPT ![l].pc = "checkState",
                                              ![l].metadata = outcome]
    /\ UNCHANGED <<nodeBlocks, acceptedStream, emitted, listenerState,
                   deliveries, blockAcceptedCallbacks,
                   blockAcceptedCallbacksLock, callers, invoked, running,
                   removed>>
    /\ UNCHANGED <<statusVars, ledgerVars, lockVars, slotVars,
                   pumpVars, paramVars, powVars,
                   pluginVars,
                   readVars,
                   runVars,
                   callVars,
                   milestoneVars>>

\* The state of the metadata is looked at, an accepted block is notified
\* at once, and the listener is returned (lines 135-142).
RegisterBlockAcceptedEventReturns(l) ==
    /\ blockAcceptedListeners[l].pc = "checkState"
    /\ LET blockID == blockAcceptedListeners[l].blockID
           after ==
               IF blockAcceptedListeners[l].metadata \in AcceptedStates
               THEN Witnessed(Notify(blockAcceptedListeners, blockID),
                              blockAcceptedListeners, blockID)
               ELSE blockAcceptedListeners
       IN  blockAcceptedListeners' =
              [after EXCEPT ![l].pc = "returned", ![l].ret = Success,
                            ![l].handle = TRUE]
    /\ UNCHANGED <<nodeBlocks, acceptedStream, emitted, listenerState,
                   deliveries, blockAcceptedCallbacks,
                   blockAcceptedCallbacksLock, callers, invoked, running,
                   removed>>
    /\ UNCHANGED <<statusVars, ledgerVars, lockVars, slotVars,
                   pumpVars, paramVars, powVars,
                   pluginVars,
                   readVars,
                   runVars,
                   callVars,
                   milestoneVars>>

\* A caller deregisters the listener it was given.
DeregisterListener(l) ==
    /\ blockAcceptedListeners[l].pc = "returned"
    /\ blockAcceptedListeners[l].handle
    /\ blockAcceptedListeners[l].state = "registered"
    /\ blockAcceptedListeners' = ListenerDeregister(blockAcceptedListeners, l)
    /\ UNCHANGED <<nodeBlocks, acceptedStream, emitted, listenerState,
                   deliveries, blockAcceptedCallbacks,
                   blockAcceptedCallbacksLock, callers, invoked, running,
                   removed>>
    /\ UNCHANGED <<statusVars, ledgerVars, lockVars, slotVars,
                   pumpVars, paramVars, powVars,
                   pluginVars,
                   readVars,
                   runVars,
                   callVars,
                   milestoneVars>>

BlockAcceptedEventNext ==
    \/ NodeNext
    \/ \E l \in ListenerIDs, b \in BlockIDs : RegisterBlockAcceptedEvent(l, b)
    \/ \E l \in ListenerIDs, outcome \in {NotFound, ErrQuery, "pending"} \cup AcceptedStates :
          EventBlockMetadataReturns(l, outcome)
    \/ \E l \in ListenerIDs : RegisterBlockAcceptedEventReturns(l)
    \/ \E l \in ListenerIDs : DeregisterListener(l)

BlockAcceptedEventSpec == StatusInit /\ [][BlockAcceptedEventNext]_vars

\* ====================================================== slot confirmation
\* RegisterSlotConfirmedEvent and the hook Run puts on
\* LatestFinalizedCommitmentChanged (tangle_listener.go:145-174), driven by
\* processNodeStatus.

\* The statuses of the node taken here: its latest commitment stays at the
\* highest slot while the latest finalized commitment moves.
SlotStatuses ==
    {st \in NodeStatuses : st.latest = INXCommitment(MaxSlot, "ok")}

\* valuenotifier.Notifier of hive.go, as commitmentConfirmedNotifier uses
\* it: Notify(slot) signals the listeners registered under that slot.
NotifySlot(listeners, slot) ==
    [l \in DOMAIN listeners |->
        IF listeners[l].state = "registered" /\ listeners[l].slot = slot
        THEN [listeners[l] EXCEPT !.signalled = TRUE]
        ELSE listeners[l]]

\* The hook of Run (tangle_listener.go:169-171), called by Trigger with the
\* commitment of the event: Notify(c.Commitment.Slot).
hookLatestFinalizedCommitmentChanged(listeners, c) ==
    IF c = Nil
    THEN [panic |-> TRUE, listeners |-> listeners]
    ELSE [panic |-> FALSE,
          listeners |-> NotifySlot(listeners, Slot(c.CommitmentID))]

\* History: the listeners whose slot the cached latest finalized commitment
\* reaches with this update are due a notification.
DueAfterUpdate(listeners, before, after) ==
    [l \in DOMAIN listeners |->
        IF /\ listeners[l].state = "registered"
           /\ after # Nil
           /\ Slot(after.CommitmentID) >= listeners[l].slot
           /\ (before = Nil \/ Slot(before.CommitmentID) < listeners[l].slot)
        THEN [listeners[l] EXCEPT !.due = TRUE]
        ELSE listeners[l]]

\* The status stream delivers a status while Run has its hook in place:
\* processNodeStatus, whose Trigger of LatestFinalizedCommitmentChanged
\* runs the hook before it returns.
SlotStatusUpdate(incoming, confirmedSlot) ==
    /\ ~hookPanic
    /\ processNodeStatus(incoming)
    /\ UNCHANGED readVars
    /\ lastConfirmedBlockSlot' = confirmedSlot
    /\ LET finalizedEvents ==
               SelectSeq(fired', LAMBDA e :
                             e.event = LatestFinalizedCommitmentChanged)
           noted == DueAfterUpdate(slotListeners, latestFinalizedCommitment,
                                   latestFinalizedCommitment')
       IN  IF finalizedEvents = <<>>
           THEN /\ slotListeners' = noted
                /\ UNCHANGED hookPanic
           ELSE LET r == hookLatestFinalizedCommitmentChanged(
                             noted, finalizedEvents[1].commitment)
                IN  /\ slotListeners' = r.listeners
                    /\ hookPanic' = r.panic

\* RegisterSlotConfirmedEvent takes a listener for the slot
\* (tangle_listener.go:147-148).
RegisterSlotConfirmedEvent(l, slot) ==
    /\ ~hookPanic
    /\ statusState = "ok"
    /\ slotListeners[l].pc = "idle"
    /\ slotListeners' = [slotListeners EXCEPT ![l] =
          [pc |-> "checkStatus", slot |-> slot, state |-> "registered",
           signalled |-> FALSE, due |-> FALSE]]
    /\ UNCHANGED <<lastConfirmedBlockSlot, hookPanic>>
    /\ UNCHANGED <<statusVars, ledgerVars, lockVars, tangleVars,
                   pumpVars, paramVars, powVars,
                   pluginVars,
                   readVars,
                   runVars,
                   callVars,
                   milestoneVars>>

\* It reads the status and notifies the slot when the last confirmed block
\* slot has reached it, then returns the listener (lines 150-156).
RegisterSlotConfirmedEventReturns(l) ==
    /\ ~hookPanic
    /\ statusState = "ok"
    /\ slotListeners[l].pc = "checkStatus"
    /\ LET slot == slotListeners[l].slot
           confirmed == lastConfirmedBlockSlot >= slot
           after == IF confirmed
                    THEN NotifySlot(slotListeners, slot) ELSE slotListeners
       IN  slotListeners' = [after EXCEPT ![l].pc = "returned",
                                          ![l].due = @ \/ confirmed]
    /\ UNCHANGED <<lastConfirmedBlockSlot, hookPanic>>
    /\ UNCHANGED <<statusVars, ledgerVars, lockVars, tangleVars,
                   pumpVars, paramVars, powVars,
                   pluginVars,
                   readVars,
                   runVars,
                   callVars,
                   milestoneVars>>

SlotNext ==
    \/ \E incoming \in SlotStatuses, confirmedSlot \in Slots :
          SlotStatusUpdate(incoming, confirmedSlot)
    \/ \E l \in SlotListenerIDs, slot \in Slots :
          RegisterSlotConfirmedEvent(l, slot)
    \/ \E l \in SlotListenerIDs : RegisterSlotConfirmedEventReturns(l)

SlotSpec == StatusInit /\ [][SlotNext]_vars

\* ============================================ ListenToStream step by step
\* ListenToStream (node_bridge.go:355-379) with the call of receiverFunc,
\* its return and the call of consumerFunc as steps of their own, pumping
\* the ledger-update stream into the consumer function of
\* ListenToLedgerUpdates.

\* Payloads the stream carries here.
PumpPayloads ==
    {[op |-> "BEGIN", commitmentID |-> CommitmentIDOfSlot(1)],
     [op |-> "CONSUMED", output |-> [outputID |-> "o1", derived |-> "o1"]],
     [op |-> "CREATED", output |-> [outputID |-> "o2", derived |-> "o2"]],
     [op |-> "END", commitmentID |-> CommitmentIDOfSlot(1),
      consumedCount |-> 1, createdCount |-> 1],
     [op |-> "END", commitmentID |-> CommitmentIDOfSlot(1),
      consumedCount |-> 0, createdCount |-> 1]}

\* What a receiverFunc call returns: an item, io.EOF, a status with
\* codes.Canceled, or another error (codes.DeadlineExceeded among them).
RecvOutcomes ==
    {[kind |-> "EOF"], [kind |-> "Canceled"], [kind |-> "error"]}
    \cup [kind : {"item"}, item : PumpPayloads]

\* The top of the loop: receiverFunc is called (node_bridge.go:356-357).
pumpCallReceiver ==
    /\ result = Running
    /\ pumpPc = "top"
    /\ Len(received) < MaxRecords
    /\ pumpPc' = "recv"
    /\ recvCalls' = recvCalls + 1
    /\ UNCHANGED <<pumpItem, consuming, arrived>>
    /\ UNCHANGED <<statusVars, ledgerVars, lockVars, tangleVars, slotVars,
                   paramVars, powVars,
                   pluginVars,
                   readVars,
                   runVars,
                   callVars,
                   milestoneVars>>

\* Mutant: every receive error ends the pump without an error.
pumpReceiverReturnsNoError(outcome) ==
    /\ pumpPc = "recv"
    /\ IF outcome.kind # "item"
       THEN /\ result' = Success
            /\ stop' = IF outcome.kind = "EOF" THEN "eof"
                       ELSE IF outcome.kind = "Canceled" THEN "canceled"
                       ELSE "recvErr"
            /\ pumpPc' = "done"
            /\ UNCHANGED <<pumpItem, consuming, arrived>>
       ELSE IF ctxDone
       THEN /\ result' = Success
            /\ stop' = "ctx"
            /\ pumpPc' = "done"
            /\ UNCHANGED <<pumpItem, consuming, arrived>>
       ELSE /\ pumpPc' = "consume"
            /\ pumpItem' = outcome.item
            /\ consuming' = consuming + 1
            /\ arrived' = Append(arrived, outcome.item)
            /\ UNCHANGED <<result, stop>>
    /\ UNCHANGED <<update, latestCommitmentID, delivered, ctxDone, received,
                   recvCalls>>
    /\ UNCHANGED <<statusVars, lockVars, tangleVars, slotVars, paramVars,
                   powVars,
                   pluginVars,
                   readVars,
                   runVars,
                   callVars,
                   milestoneVars>>

\* Mutant: the context is not looked at after a receive.
pumpReceiverReturnsNoCtxCheck(outcome) ==
    /\ pumpPc = "recv"
    /\ IF outcome.kind \in {"EOF", "Canceled"}
       THEN /\ result' = Success
            /\ stop' = IF outcome.kind = "EOF" THEN "eof" ELSE "canceled"
            /\ pumpPc' = "done"
            /\ UNCHANGED <<pumpItem, consuming, arrived>>
       ELSE IF outcome.kind = "error"
       THEN /\ result' = ErrRecv
            /\ stop' = "recvErr"
            /\ pumpPc' = "done"
            /\ UNCHANGED <<pumpItem, consuming, arrived>>
       ELSE /\ pumpPc' = "consume"
            /\ pumpItem' = outcome.item
            /\ consuming' = consuming + 1
            /\ arrived' = Append(arrived, outcome.item)
            /\ UNCHANGED <<result, stop>>
    /\ UNCHANGED <<update, latestCommitmentID, delivered, ctxDone, received,
                   recvCalls>>
    /\ UNCHANGED <<statusVars, lockVars, tangleVars, slotVars, paramVars,
                   powVars,
                   pluginVars,
                   readVars,
                   runVars,
                   callVars,
                   milestoneVars>>

\* Mutant: consumerFunc is started in a goroutine of its own and the loop
\* goes on to the next receive.
pumpReceiverReturnsAsync(outcome) ==
    /\ pumpPc = "recv"
    /\ IF outcome.kind \in {"EOF", "Canceled"}
       THEN /\ result' = Success
            /\ stop' = IF outcome.kind = "EOF" THEN "eof" ELSE "canceled"
            /\ pumpPc' = "done"
            /\ UNCHANGED <<pumpItem, consuming, arrived>>
       ELSE IF outcome.kind = "error"
       THEN /\ result' = ErrRecv
            /\ stop' = "recvErr"
            /\ pumpPc' = "done"
            /\ UNCHANGED <<pumpItem, consuming, arrived>>
       ELSE IF ctxDone
       THEN /\ result' = Success
            /\ stop' = "ctx"
            /\ pumpPc' = "done"
            /\ UNCHANGED <<pumpItem, consuming, arrived>>
       ELSE /\ pumpPc' = "top"
            /\ pumpItem' = outcome.item
            /\ consuming' = consuming + 1
            /\ arrived' = Append(arrived, outcome.item)
            /\ UNCHANGED <<result, stop>>
    /\ UNCHANGED <<update, latestCommitmentID, delivered, ctxDone, received,
                   recvCalls>>
    /\ UNCHANGED <<statusVars, lockVars, tangleVars, slotVars, paramVars,
                   powVars,
                   pluginVars,
                   readVars,
                   runVars,
                   callVars,
                   milestoneVars>>

\* receiverFunc returns (node_bridge.go:357-372): io.EOF and codes.Canceled
\* break the loop and nil is returned, any other error is returned; with an
\* item the context is looked at, a context that is done breaks the loop,
\* else consumerFunc is called with the item.
pumpReceiverReturns(outcome) ==
    /\ pumpPc = "recv"
    /\ IF outcome.kind \in {"EOF", "Canceled"}
       THEN /\ result' = Success
            /\ stop' = IF outcome.kind = "EOF" THEN "eof" ELSE "canceled"
            /\ pumpPc' = "done"
            /\ UNCHANGED <<pumpItem, consuming, arrived>>
       ELSE IF outcome.kind = "error"
       THEN /\ result' = ErrRecv
            /\ stop' = "recvErr"
            /\ pumpPc' = "done"
            /\ UNCHANGED <<pumpItem, consuming, arrived>>
       ELSE IF ctxDone
       THEN /\ result' = Success
            /\ stop' = "ctx"
            /\ pumpPc' = "done"
            /\ UNCHANGED <<pumpItem, consuming, arrived>>
       ELSE /\ pumpPc' = "consume"
            /\ pumpItem' = outcome.item
            /\ consuming' = consuming + 1
            /\ arrived' = Append(arrived, outcome.item)
            /\ UNCHANGED <<result, stop>>
    /\ UNCHANGED <<update, latestCommitmentID, delivered, ctxDone, received,
                   recvCalls>>
    /\ UNCHANGED <<statusVars, lockVars, tangleVars, slotVars, paramVars,
                   powVars,
                   pluginVars,
                   readVars,
                   runVars,
                   callVars,
                   milestoneVars>>

\* consumerFunc returns (node_bridge.go:372-374): its error is returned,
\* else the loop starts over.
pumpConsumerReturns(consumerFails) ==
    /\ pumpPc = "consume"
    /\ LET r == ledgerUpdateConsumerFunc(pumpItem, consumerFails)
       IN  /\ update' = r.update
           /\ latestCommitmentID' = r.latestCommitmentID
           /\ delivered' = r.delivered
           /\ received' = Append(received, pumpItem)
           /\ result' = IF r.err = Success THEN Running ELSE r.err
           /\ stop' = IF r.err = Success THEN stop ELSE "consumerFunc"
           /\ pumpPc' = IF r.err = Success THEN "top" ELSE "done"
    /\ consuming' = consuming - 1
    /\ pumpItem' = Nil
    /\ UNCHANGED <<ctxDone, recvCalls, arrived>>
    /\ UNCHANGED <<statusVars, lockVars, tangleVars, slotVars, paramVars,
                   powVars,
                   pluginVars,
                   readVars,
                   runVars,
                   callVars,
                   milestoneVars>>

PumpNext ==
    \/ pumpCallReceiver
    \/ \E outcome \in RecvOutcomes : pumpReceiverReturns(outcome)
    \/ \E consumerFails \in BOOLEAN : pumpConsumerReturns(consumerFails)
    \/ CancelContext

PumpSpec == LedgerInit /\ [][PumpNext]_vars

\* ================ the node-status listener with protocol parameters
\* The revision of the bridge that caches the protocol parameters next to
\* the node status (node_status.go:39-135): NewNodeBridge reads the status
\* once and decodes its parameters, Run starts listenToNodeStatus with a
\* cancellable context and closes the connection when that context is done
\* (src/nodebridge/node_bridge.go:50-107).

supportedProtocolVersion == 2

\* *inx.RawProtocolParameters: the version and the serialized parameters.
RawProtocolParameters ==
    [ProtocolVersion : {supportedProtocolVersion, supportedProtocolVersion + 1},
     Params : {"p1", "p2", "undecodable"}]

\* The *inx.NodeStatus messages of this revision.
ParamNodeStatuses ==
    [latest : {INXCommitment(s, p) : s \in Slots, p \in {"ok", "bad"}},
     confirmed : {INXCommitment(s, "ok") : s \in Slots},
     params : RawProtocolParameters]

LatestCommittedSlotChanged == "LatestCommittedSlotChanged"
ConfirmedSlotChanged == "ConfirmedSlotChanged"

\* protocolParametersFromRaw (node_status.go:46-57): an error for a version
\* other than supportedProtocolVersion and for parameters that do not
\* decode, else the decoded parameters.
protocolParametersFromRaw(params) ==
    IF params.ProtocolVersion # supportedProtocolVersion
    THEN [err |-> "unsupported protocol version", protoParams |-> Nil]
    ELSE IF params.Params = "undecodable"
    THEN [err |-> "decode", protoParams |-> Nil]
    ELSE [err |-> "nil", protoParams |-> [decoded |-> params.Params]]

\* NewNodeBridge (src/nodebridge/node_bridge.go:50-92) reads the node
\* status and decodes its parameters, and fails when they do not decode;
\* Run then starts listenToNodeStatus (95-107).
NewNodeBridge(initial) ==
    /\ statusListener = "new"
    /\ LET r == protocolParametersFromRaw(initial.params)
       IN  IF r.err # "nil"
           THEN /\ statusListener' = "failed"
                /\ UNCHANGED <<nodeStatus, protocolParameters>>
           ELSE /\ statusListener' = "running"
                /\ nodeStatus' = initial
                /\ protocolParameters' = r.protoParams
    /\ UNCHANGED <<lifetimeCancelled, lastStatus>>
    /\ UNCHANGED <<latestCommitment, latestFinalizedCommitment, fired, stored,
                   committedSlot, statusState, baseline>>
    /\ UNCHANGED <<ledgerVars, lockVars, tangleVars, slotVars, pumpVars,
                   powVars,
                   pluginVars,
                   readVars,
                   runVars,
                   callVars,
                   milestoneVars>>

\* processNodeStatus (node_status.go:91-135): under the lock the slots are
\* compared with the ones of the cached snapshot, the snapshot is assigned
\* (105), then the parameters are decoded (107) and, without an error,
\* assigned (111); with an error processNodeStatus returns it (109, 116).
\* The events are triggered after the lock is released, each if its
\* commitment decodes.
processNodeStatusWithParameters(incoming) ==
    LET latestCommittedSlotChanged ==
            Slot(incoming.latest.commitmentID) >
                Slot(nodeStatus.latest.commitmentID)
        confirmedCommitmentChanged ==
            Slot(incoming.confirmed.commitmentID) >
                Slot(nodeStatus.confirmed.commitmentID)
        r == protocolParametersFromRaw(incoming.params)
        dl == commitmentFromINXCommitment(incoming.latest)
        dc == commitmentFromINXCommitment(incoming.confirmed)
        events ==
            (IF latestCommittedSlotChanged /\ ~dl.err
             THEN <<[event |-> LatestCommittedSlotChanged,
                     commitment |-> dl.commitment]>>
             ELSE <<>>)
            \o
            (IF confirmedCommitmentChanged /\ ~dc.err
             THEN <<[event |-> ConfirmedSlotChanged,
                     commitment |-> dc.commitment]>>
             ELSE <<>>)
    IN  [nodeStatus |-> incoming,
         protocolParameters |->
             IF r.err = "nil" THEN r.protoParams ELSE protocolParameters,
         events |-> IF r.err = "nil" THEN events ELSE <<>>,
         err |-> r.err]

\* Mutant: an update that processNodeStatus rejects is logged and the loop
\* goes on with the next update.
listenToNodeStatusRecvSkips(incoming) ==
    /\ statusListener = "running"
    /\ IF lifetimeCancelled
       THEN /\ statusListener' = "returned"
            /\ UNCHANGED <<nodeStatus, protocolParameters, fired, lastStatus,
                           lifetimeCancelled>>
       ELSE LET r == processNodeStatusWithParameters(incoming)
            IN  /\ nodeStatus' = r.nodeStatus
                /\ protocolParameters' = r.protocolParameters
                /\ fired' = r.events
                /\ lastStatus' = [status |-> incoming, err |-> r.err]
                /\ UNCHANGED <<statusListener, lifetimeCancelled>>
    /\ UNCHANGED <<latestCommitment, latestFinalizedCommitment, stored,
                   committedSlot, statusState, baseline>>
    /\ UNCHANGED <<ledgerVars, lockVars, tangleVars, slotVars, pumpVars,
                   powVars,
                   pluginVars,
                   readVars,
                   runVars,
                   callVars,
                   milestoneVars>>

\* stream.Recv returns a status (node_status.go:68-85): with the context
\* done the loop is left; else processNodeStatus is called and its error
\* is logged and the loop left. The function returns nil and the deferred
\* cancel() runs (60, 88).
listenToNodeStatusRecv(incoming) ==
    /\ statusListener = "running"
    /\ IF lifetimeCancelled
       THEN /\ statusListener' = "returned"
            /\ UNCHANGED <<nodeStatus, protocolParameters, fired, lastStatus,
                           lifetimeCancelled>>
       ELSE LET r == processNodeStatusWithParameters(incoming)
            IN  /\ nodeStatus' = r.nodeStatus
                /\ protocolParameters' = r.protocolParameters
                /\ fired' = r.events
                /\ lastStatus' = [status |-> incoming, err |-> r.err]
                /\ statusListener' =
                      IF r.err = "nil" THEN "running" ELSE "returned"
                /\ lifetimeCancelled' = (r.err # "nil")
    /\ UNCHANGED <<latestCommitment, latestFinalizedCommitment, stored,
                   committedSlot, statusState, baseline>>
    /\ UNCHANGED <<ledgerVars, lockVars, tangleVars, slotVars, pumpVars,
                   powVars,
                   pluginVars,
                   readVars,
                   runVars,
                   callVars,
                   milestoneVars>>

\* stream.Recv returns an error (node_status.go:69-76): io.EOF and
\* cancellation leave the loop, any other error is logged and leaves the
\* loop; the deferred cancel() runs.
listenToNodeStatusRecvFails ==
    /\ statusListener = "running"
    /\ statusListener' = "returned"
    /\ lifetimeCancelled' = TRUE
    /\ UNCHANGED <<protocolParameters, lastStatus>>
    /\ UNCHANGED <<statusVars, ledgerVars, lockVars, tangleVars, slotVars,
                   pumpVars, powVars,
                   pluginVars,
                   readVars,
                   runVars,
                   callVars,
                   milestoneVars>>

\* The context given to Run is cancelled while the listener runs.
RunContextCancelled ==
    /\ statusListener = "running"
    /\ ~lifetimeCancelled
    /\ lifetimeCancelled' = TRUE
    /\ UNCHANGED <<protocolParameters, statusListener, lastStatus>>
    /\ UNCHANGED <<statusVars, ledgerVars, lockVars, tangleVars, slotVars,
                   pumpVars, powVars,
                   pluginVars,
                   readVars,
                   runVars,
                   callVars,
                   milestoneVars>>

ParamStatusNext ==
    \/ \E initial \in ParamNodeStatuses : NewNodeBridge(initial)
    \/ \E incoming \in ParamNodeStatuses : listenToNodeStatusRecv(incoming)
    \/ listenToNodeStatusRecvFails
    \/ RunContextCancelled

ParamStatusSpec == StatusInit /\ [][ParamStatusNext]_vars

\* ======================================================= DoPoW (pow.go)
\* DoPoW (pow.go:32-127) with the calls it waits for as steps of their own:
\* refreshTipsFunc (41, 86) and Mine (82). The context can be cancelled at
\* any time; Mine runs under a child context that also ends after
\* refreshTipsInterval when a refreshTipsFunc was given (76-80).

nonceBytes == 8

ErrOperationAborted == "operation was aborted"
ErrParentsNotGiven == "no parents given"
ErrCancelled == "pow.ErrCancelled"
ErrRefreshTips == "refreshTipsFunc failed"
ErrSerialize == "unable to perform PoW as block can't be serialized"
ErrMine == "Mine failed"

PowParents == {<<>>, <<"p1">>}
PowTips == {<<>>, <<"t1">>, <<"t2">>}
PowNonces == {0, 7}
PoWScores == {0, 1}
PowBlocks == [StrongParents : PowParents, Nonce : PowNonces]

\* What refreshTipsFunc returns: tips, none at all among them, or an error.
RefreshOutcomes == {[kind |-> "error"]} \cup [kind : {"tips"}, tips : PowTips]

\* What Mine returns: a nonce, pow.ErrCancelled or another error.
MineOutcomes ==
    {[kind |-> "cancelled"], [kind |-> "failed"]}
    \cup [kind : {"found"}, nonce : PowNonces]

\* The nonce as the last nonceBytes bytes of the serialized block.
RECURSIVE NonceField(_, _)
NonceField(nonce, n) ==
    IF n = 0 THEN <<>> ELSE <<nonce % 256>> \o NonceField(nonce \div 256, n - 1)

\* api.Encode (pow.go:59): the strong parents followed by the nonce; a
\* block without strong parents does not serialize.
Encode(blk) ==
    IF Len(blk.StrongParents) = 0
    THEN [err |-> TRUE, blockData |-> <<>>]
    ELSE [err |-> FALSE,
          blockData |-> blk.StrongParents \o NonceField(blk.Nonce, nonceBytes)]

\* getPoWData (pow.go:58-65): the serialized block without its nonce.
getPoWData(blk) ==
    LET e == Encode(blk)
    IN  IF e.err
        THEN [err |-> ErrSerialize, powData |-> Nil]
        ELSE [err |-> "nil",
              powData |-> SubSeq(e.blockData, 1, Len(e.blockData) - nonceBytes)]

PowReturn(blockSize, err) == [blockSize |-> blockSize, err |-> err]

\* Mutant: the context is looked at before the target.
powAfterParentsCtxFirst(blk, MinPoWScore) ==
    IF powCtxDone
    THEN [pc |-> "done", block |-> blk, powData |-> Nil,
          ret |-> PowReturn(0, ErrOperationAborted), searches |-> searches]
    ELSE IF MinPoWScore = 0
    THEN [pc |-> "done", block |-> [blk EXCEPT !.Nonce = 0], powData |-> Nil,
          ret |-> PowReturn(0, "nil"), searches |-> searches]
    ELSE LET d == getPoWData(blk)
         IN  IF d.err # "nil"
             THEN [pc |-> "done", block |-> blk, powData |-> Nil,
                   ret |-> PowReturn(0, d.err), searches |-> searches]
             ELSE [pc |-> "mine", block |-> blk, powData |-> d.powData,
                   ret |-> Nil, searches |-> searches + 1]

\* DoPoW once the block has parents (pow.go:48-82, 107-108): a zero target
\* sets the nonce to 0 and returns; a context that is done gives
\* ErrOperationAborted; the prefix is serialized; Mine is called.
powAfterParents(blk, MinPoWScore) ==
    IF MinPoWScore = 0
    THEN [pc |-> "done", block |-> [blk EXCEPT !.Nonce = 0], powData |-> Nil,
          ret |-> PowReturn(0, "nil"), searches |-> searches]
    ELSE IF powCtxDone
    THEN [pc |-> "done", block |-> blk, powData |-> Nil,
          ret |-> PowReturn(0, ErrOperationAborted), searches |-> searches]
    ELSE LET d == getPoWData(blk)
         IN  IF d.err # "nil"
             THEN [pc |-> "done", block |-> blk, powData |-> Nil,
                   ret |-> PowReturn(0, d.err), searches |-> searches]
             ELSE [pc |-> "mine", block |-> blk, powData |-> d.powData,
                   ret |-> Nil, searches |-> searches + 1]

\* Mutant: the target is looked at before the parents.
DoPoWCallTargetFirst(blk, refreshTipsFunc, MinPoWScore) ==
    /\ powPc = "idle"
    /\ powInput' = [block |-> blk, refreshTipsFunc |-> refreshTipsFunc,
                    MinPoWScore |-> MinPoWScore]
    /\ IF MinPoWScore = 0
       THEN /\ powPc' = "done"
            /\ block' = [blk EXCEPT !.Nonce = 0]
            /\ powRet' = PowReturn(0, "nil")
            /\ UNCHANGED <<powData, searches, refreshes>>
       ELSE IF Len(blk.StrongParents) = 0 /\ ~refreshTipsFunc
       THEN /\ powPc' = "done"
            /\ block' = blk
            /\ powRet' = PowReturn(0, ErrParentsNotGiven)
            /\ UNCHANGED <<powData, searches, refreshes>>
       ELSE IF Len(blk.StrongParents) = 0
       THEN /\ powPc' = "initialTips"
            /\ block' = blk
            /\ refreshes' = refreshes + 1
            /\ UNCHANGED <<powData, powRet, searches>>
       ELSE LET n == powAfterParents(blk, MinPoWScore)
            IN  /\ powPc' = n.pc
                /\ block' = n.block
                /\ powData' = n.powData
                /\ powRet' = n.ret
                /\ searches' = n.searches
                /\ UNCHANGED refreshes
    /\ UNCHANGED <<powCtxDone, attempt, refreshed>>
    /\ UNCHANGED <<statusVars, ledgerVars, lockVars, tangleVars, slotVars,
                   pumpVars, paramVars,
                   pluginVars,
                   readVars,
                   runVars,
                   callVars,
                   milestoneVars>>

\* DoPoW is called (pow.go:32-46): a block without strong parents and no
\* refreshTipsFunc give ErrParentsNotGiven; without strong parents
\* refreshTipsFunc is called; with them DoPoW goes on.
DoPoWCall(blk, refreshTipsFunc, MinPoWScore) ==
    /\ powPc = "idle"
    /\ powInput' = [block |-> blk, refreshTipsFunc |-> refreshTipsFunc,
                    MinPoWScore |-> MinPoWScore]
    /\ IF Len(blk.StrongParents) = 0 /\ ~refreshTipsFunc
       THEN /\ powPc' = "done"
            /\ block' = blk
            /\ powRet' = PowReturn(0, ErrParentsNotGiven)
            /\ UNCHANGED <<powData, searches, refreshes>>
       ELSE IF Len(blk.StrongParents) = 0
       THEN /\ powPc' = "initialTips"
            /\ block' = blk
            /\ refreshes' = refreshes + 1
            /\ UNCHANGED <<powData, powRet, searches>>
       ELSE LET n == powAfterParents(blk, MinPoWScore)
            IN  /\ powPc' = n.pc
                /\ block' = n.block
                /\ powData' = n.powData
                /\ powRet' = n.ret
                /\ searches' = n.searches
                /\ UNCHANGED refreshes
    /\ UNCHANGED <<powCtxDone, attempt, refreshed>>
    /\ UNCHANGED <<statusVars, ledgerVars, lockVars, tangleVars, slotVars,
                   pumpVars, paramVars,
                   pluginVars,
                   readVars,
                   runVars,
                   callVars,
                   milestoneVars>>

\* refreshTipsFunc returns the initial parents (pow.go:41-46): its error is
\* returned, else the tips become the strong parents and DoPoW goes on.
initialTipsReturn(outcome) ==
    /\ powPc = "initialTips"
    /\ refreshed' = outcome
    /\ IF outcome.kind = "error"
       THEN /\ powPc' = "done"
            /\ powRet' = PowReturn(0, ErrRefreshTips)
            /\ UNCHANGED <<block, powData, searches>>
       ELSE LET n == powAfterParents([block EXCEPT !.StrongParents = outcome.tips],
                                     powInput.MinPoWScore)
            IN  /\ powPc' = n.pc
                /\ block' = n.block
                /\ powData' = n.powData
                /\ powRet' = n.ret
                /\ searches' = n.searches
    /\ UNCHANGED <<powInput, powCtxDone, attempt, refreshes>>
    /\ UNCHANGED <<statusVars, ledgerVars, lockVars, tangleVars, slotVars,
                   pumpVars, paramVars,
                   pluginVars,
                   readVars,
                   runVars,
                   callVars,
                   milestoneVars>>

\* The loop of DoPoW after doPow returned an error (pow.go:109-121): a
\* context that is done gives ErrOperationAborted, pow.ErrCancelled starts
\* the next search, any other error is returned.
powAfterError(err) ==
    IF powCtxDone
    THEN [pc |-> "done", ret |-> PowReturn(0, ErrOperationAborted),
          searches |-> searches]
    ELSE IF err = ErrCancelled
    THEN [pc |-> "mine", ret |-> Nil, searches |-> searches + 1]
    ELSE [pc |-> "done", ret |-> PowReturn(0, err), searches |-> searches]

\* Mutant: the context is looked at whatever Mine returned.
mineReturnsCtxAlways(outcome) ==
    /\ powPc = "mine"
    /\ outcome.kind = "cancelled" =>
          /\ powCtxDone \/ powInput.refreshTipsFunc
          /\ powInput.refreshTipsFunc => searches < MaxSearches
    /\ attempt' = outcome
    /\ IF outcome.kind = "found" /\ ~powCtxDone
       THEN /\ block' = [block EXCEPT !.Nonce = outcome.nonce]
            /\ powRet' = PowReturn(Len(powData) + nonceBytes, "nil")
            /\ powPc' = "done"
            /\ UNCHANGED <<searches, refreshes>>
       ELSE IF outcome.kind = "cancelled" /\ powInput.refreshTipsFunc
       THEN /\ powPc' = "refresh"
            /\ refreshes' = refreshes + 1
            /\ UNCHANGED <<block, powRet, searches>>
       ELSE LET n == powAfterError(IF outcome.kind = "cancelled"
                                   THEN ErrCancelled ELSE ErrMine)
            IN  /\ powPc' = n.pc
                /\ powRet' = n.ret
                /\ searches' = n.searches
                /\ UNCHANGED <<block, refreshes>>
    /\ UNCHANGED <<powInput, powData, powCtxDone, refreshed>>
    /\ UNCHANGED <<statusVars, ledgerVars, lockVars, tangleVars, slotVars,
                   pumpVars, paramVars,
                   pluginVars,
                   readVars,
                   runVars,
                   callVars,
                   milestoneVars>>

\* Mine returns (pow.go:82-104, 108-125). A nonce is written into the block
\* and the size of the block returned. pow.ErrCancelled, which Mine returns
\* when its context is done, calls refreshTipsFunc if there is one. Any
\* other error, and pow.ErrCancelled without a refreshTipsFunc, go to the
\* loop of DoPoW.
mineReturns(outcome) ==
    /\ powPc = "mine"
    /\ outcome.kind = "cancelled" =>
          /\ powCtxDone \/ powInput.refreshTipsFunc
          /\ powInput.refreshTipsFunc => searches < MaxSearches
    /\ attempt' = outcome
    /\ IF outcome.kind = "found"
       THEN /\ block' = [block EXCEPT !.Nonce = outcome.nonce]
            /\ powRet' = PowReturn(Len(powData) + nonceBytes, "nil")
            /\ powPc' = "done"
            /\ UNCHANGED <<searches, refreshes>>
       ELSE IF outcome.kind = "cancelled" /\ powInput.refreshTipsFunc
       THEN /\ powPc' = "refresh"
            /\ refreshes' = refreshes + 1
            /\ UNCHANGED <<block, powRet, searches>>
       ELSE LET n == powAfterError(IF outcome.kind = "cancelled"
                                   THEN ErrCancelled ELSE ErrMine)
            IN  /\ powPc' = n.pc
                /\ powRet' = n.ret
                /\ searches' = n.searches
                /\ UNCHANGED <<block, refreshes>>
    /\ UNCHANGED <<powInput, powData, powCtxDone, refreshed>>
    /\ UNCHANGED <<statusVars, ledgerVars, lockVars, tangleVars, slotVars,
                   pumpVars, paramVars,
                   pluginVars,
                   readVars,
                   runVars,
                   callVars,
                   milestoneVars>>

\* Mutant: the tips refreshTipsFunc returned are not put into the block.
refreshTipsReturnKeepParents(outcome) ==
    /\ powPc = "refresh"
    /\ refreshed' = outcome
    /\ LET d == getPoWData(block)
           n == powAfterError(IF outcome.kind = "error" THEN ErrRefreshTips
                              ELSE IF d.err # "nil" THEN d.err
                              ELSE ErrCancelled)
       IN  /\ UNCHANGED block
           /\ powData' = IF outcome.kind = "tips" /\ d.err = "nil"
                         THEN d.powData ELSE powData
           /\ powPc' = n.pc
           /\ powRet' = n.ret
           /\ searches' = n.searches
    /\ UNCHANGED <<powInput, powCtxDone, attempt, refreshes>>
    /\ UNCHANGED <<statusVars, ledgerVars, lockVars, tangleVars, slotVars,
                   pumpVars, paramVars,
                   pluginVars,
                   readVars,
                   runVars,
                   callVars,
                   milestoneVars>>

\* refreshTipsFunc returns inside doPow (pow.go:86-98, 108-121): its error
\* is the error of doPow; else the tips become the strong parents and the
\* prefix is serialized again, an error of which is the error of doPow, and
\* doPow returns pow.ErrCancelled. The loop of DoPoW follows.
refreshTipsReturn(outcome) ==
    /\ powPc = "refresh"
    /\ refreshed' = outcome
    /\ LET blk == IF outcome.kind = "tips"
                  THEN [block EXCEPT !.StrongParents = outcome.tips]
                  ELSE block
           d == getPoWData(blk)
           n == powAfterError(IF outcome.kind = "error" THEN ErrRefreshTips
                              ELSE IF d.err # "nil" THEN d.err
                              ELSE ErrCancelled)
       IN  /\ block' = blk
           /\ powData' = IF outcome.kind = "tips" THEN d.powData ELSE powData
           /\ powPc' = n.pc
           /\ powRet' = n.ret
           /\ searches' = n.searches
    /\ UNCHANGED <<powInput, powCtxDone, attempt, refreshes>>
    /\ UNCHANGED <<statusVars, ledgerVars, lockVars, tangleVars, slotVars,
                   pumpVars, paramVars,
                   pluginVars,
                   readVars,
                   runVars,
                   callVars,
                   milestoneVars>>

\* The context of DoPoW is cancelled, before the call or during it.
PowCancelContext ==
    /\ powPc # "done"
    /\ ~powCtxDone
    /\ powCtxDone' = TRUE
    /\ UNCHANGED <<powPc, powInput, block, powData, attempt, powRet, searches,
                   refreshes, refreshed>>
    /\ UNCHANGED <<statusVars, ledgerVars, lockVars, tangleVars, slotVars,
                   pumpVars, paramVars,
                   pluginVars,
                   readVars,
                   runVars,
                   callVars,
                   milestoneVars>>

PowNext ==
    \/ \E blk \in PowBlocks, refreshTipsFunc \in BOOLEAN,
          MinPoWScore \in PoWScores :
          DoPoWCall(blk, refreshTipsFunc, MinPoWScore)
    \/ \E outcome \in RefreshOutcomes : initialTipsReturn(outcome)
    \/ \E outcome \in MineOutcomes : mineReturns(outcome)
    \/ \E outcome \in RefreshOutcomes : refreshTipsReturn(outcome)
    \/ PowCancelContext

PowSpec == StatusInit /\ [][PowNext]_vars

\* ============================================= getPluginClient
\* getPluginClient (node_bridge.go:245-273), the loop behind Management,
\* Indexer, EventAPI and BlockIssuer (275-352): clientInitHook is called
\* with a timeout of one second while the context is live; the answer of
\* the node and the end of the sleep are steps of their own.

ErrManagementPluginNotAvailable == "ErrManagementPluginNotAvailable"
ErrIndexerPluginNotAvailable == "ErrIndexerPluginNotAvailable"
ErrMQTTPluginNotAvailable == "ErrMQTTPluginNotAvailable"
ErrBlockIssuerPluginNotAvailable == "ErrBlockIssuerPluginNotAvailable"

\* The notAvailableError of Management, Indexer, EventAPI and BlockIssuer.
PluginNotAvailableErrors ==
    {ErrManagementPluginNotAvailable, ErrIndexerPluginNotAvailable,
     ErrMQTTPluginNotAvailable, ErrBlockIssuerPluginNotAvailable}

ErrNodeclientOverINX == "NewNodeclientOverINX failed"
ErrNode == "node error"
ErrDeadlineExceeded == "context deadline exceeded"
ErrContextCanceled == "context canceled"

\* What clientInitHook returns: nil, the not-available error of the plugin,
\* an error of the node, or the error of its context (the timeout of one
\* second, or the cancellation of the context of getPluginClient).
InitOutcomes ==
    {"nil", "not available", ErrNode, ErrDeadlineExceeded, ErrContextCanceled}

\* Mutant: a context that is done ends the loop with ErrOperationAborted.
pluginLoopTopAborts(notAvailable, calls) ==
    IF pluginCtxDone
    THEN [pc |-> "done", ret |-> ErrOperationAborted, initCalls |-> calls]
    ELSE [pc |-> "init", ret |-> "none", initCalls |-> calls + 1]

\* The loop condition (node_bridge.go:260, 272): with the context live
\* clientInitHook is called, else notAvailableError is returned.
pluginLoopTop(notAvailable, calls) ==
    IF pluginCtxDone
    THEN [pc |-> "done", ret |-> notAvailable, initCalls |-> calls]
    ELSE [pc |-> "init", ret |-> "none", initCalls |-> calls + 1]

\* getPluginClient is called (node_bridge.go:245-260): an error of
\* INXNodeClient is returned, else the loop is entered.
getPluginClientCall(notAvailable, nodeClientFails) ==
    /\ pluginPc = "idle"
    /\ notAvailableError' = notAvailable
    /\ IF nodeClientFails
       THEN /\ pluginPc' = "done"
            /\ pluginRet' = ErrNodeclientOverINX
            /\ UNCHANGED initCalls
       ELSE LET n == pluginLoopTop(notAvailable, initCalls)
            IN  /\ pluginPc' = n.pc
                /\ pluginRet' = n.ret
                /\ initCalls' = n.initCalls
    /\ UNCHANGED <<pluginCtxDone, lastInit>>
    /\ UNCHANGED <<statusVars, ledgerVars, lockVars, tangleVars, slotVars,
                   pumpVars, paramVars, powVars,
                   readVars,
                   runVars,
                   callVars,
                   milestoneVars>>

\* clientInitHook returns (node_bridge.go:261-270): nil is returned; an
\* error that is not notAvailableError is returned; notAvailableError
\* sleeps for a second.
clientInitHookReturns(outcome) ==
    /\ pluginPc = "init"
    /\ outcome = ErrContextCanceled => pluginCtxDone
    /\ lastInit' = IF outcome = "not available" THEN notAvailableError
                   ELSE outcome
    /\ IF outcome = "nil"
       THEN /\ pluginPc' = "done"
            /\ pluginRet' = "nil"
       ELSE IF outcome # "not available"
       THEN /\ pluginPc' = "done"
            /\ pluginRet' = outcome
       ELSE /\ pluginPc' = "sleep"
            /\ UNCHANGED pluginRet
    /\ UNCHANGED <<notAvailableError, pluginCtxDone, initCalls>>
    /\ UNCHANGED <<statusVars, ledgerVars, lockVars, tangleVars, slotVars,
                   pumpVars, paramVars, powVars,
                   readVars,
                   runVars,
                   callVars,
                   milestoneVars>>

\* time.Sleep returns and the loop starts over (node_bridge.go:265-267).
pluginSleepReturns ==
    /\ pluginPc = "sleep"
    /\ pluginCtxDone \/ initCalls < MaxInitCalls
    /\ LET n == pluginLoopTop(notAvailableError, initCalls)
       IN  /\ pluginPc' = n.pc
           /\ pluginRet' = n.ret
           /\ initCalls' = n.initCalls
    /\ UNCHANGED <<notAvailableError, pluginCtxDone, lastInit>>
    /\ UNCHANGED <<statusVars, ledgerVars, lockVars, tangleVars, slotVars,
                   pumpVars, paramVars, powVars,
                   readVars,
                   runVars,
                   callVars,
                   milestoneVars>>

\* The context of getPluginClient is cancelled, before the call or during it.
PluginCancelContext ==
    /\ pluginPc # "done"
    /\ ~pluginCtxDone
    /\ pluginCtxDone' = TRUE
    /\ UNCHANGED <<pluginPc, notAvailableError, pluginRet, initCalls, lastInit>>
    /\ UNCHANGED <<statusVars, ledgerVars, lockVars, tangleVars, slotVars,
                   pumpVars, paramVars, powVars,
                   readVars,
                   runVars,
                   callVars,
                   milestoneVars>>

PluginNext ==
    \/ \E notAvailable \in PluginNotAvailableErrors,
          nodeClientFails \in BOOLEAN :
          getPluginClientCall(notAvailable, nodeClientFails)
    \/ \E outcome \in InitOutcomes : clientInitHookReturns(outcome)
    \/ pluginSleepReturns
    \/ PluginCancelContext

PluginSpec == StatusInit /\ [][PluginNext]_vars

\* ======================================== the accessors of the status cache
\* NodeStatus, LatestCommitment and LatestFinalizedCommitment
\* (part_008:176-202; node_status.go:150-177) are called between the status
\* updates: each takes the read lock, returns its field and releases the
\* lock.

Accessors == {"NodeStatus", "LatestCommitment", "LatestFinalizedCommitment"}

\* The field an accessor returns.
accessorValue(a) ==
    CASE a = "NodeStatus" -> nodeStatus
      [] a = "LatestCommitment" -> latestCommitment
      [] a = "LatestFinalizedCommitment" -> latestFinalizedCommitment

\* Mutant: the accessor hands its field out and leaves nil behind.
accessorCallTake(a) ==
    /\ statusState = "ok"
    /\ lastRead' = [accessor |-> a, value |-> accessorValue(a)]
    /\ updatedSince' = FALSE
    /\ nodeStatus' = IF a = "NodeStatus" THEN Nil ELSE nodeStatus
    /\ latestCommitment' =
          IF a = "LatestCommitment" THEN Nil ELSE latestCommitment
    /\ latestFinalizedCommitment' =
          IF a = "LatestFinalizedCommitment" THEN Nil
          ELSE latestFinalizedCommitment
    /\ UNCHANGED <<fired, stored, committedSlot, statusState, baseline>>
    /\ UNCHANGED <<ledgerVars, lockVars, tangleVars, slotVars, pumpVars,
                   paramVars, powVars, pluginVars,
                   runVars,
                   callVars,
                   milestoneVars>>

\* An accessor is called and returns (part_008:176-202).
accessorCall(a) ==
    /\ statusState = "ok"
    /\ lastRead' = [accessor |-> a, value |-> accessorValue(a)]
    /\ updatedSince' = FALSE
    /\ UNCHANGED <<statusVars, ledgerVars, lockVars, tangleVars, slotVars,
                   pumpVars, paramVars, powVars, pluginVars,
                   runVars,
                   callVars,
                   milestoneVars>>

\* The status stream delivers a status between two accessor calls.
AccessorStatusUpdate(incoming) ==
    /\ processNodeStatus(incoming)
    /\ updatedSince' = TRUE
    /\ UNCHANGED <<lastRead, slotVars>>

AccessorNext ==
    \/ \E a \in Accessors : accessorCall(a)
    \/ \E incoming \in LockStatuses : AccessorStatusUpdate(incoming)

AccessorSpec == StatusInit /\ [][AccessorNext]_vars

\* ================= processNodeStatus step by step, for every status
\* The steps of StatusLockSpec under the statuses of StatusSpec, the ones
\* whose commitments do not decode or carry no payload among them.

\* The statuses of the lowest and of the highest slot.
LockFullStatuses ==
    {st \in NodeStatuses :
        /\ Slot(st.latest.commitmentID) \in {0, MaxSlot}
        /\ Slot(st.finalized.commitmentID) \in {0, MaxSlot}}

StatusLockFullNext ==
    \/ \E incoming \in LockFullStatuses : processNodeStatusCall(incoming)
    \/ updateStatusLock
    \/ updateStatusLatest
    \/ updateStatusFinalized
    \/ updateStatusSnapshot
    \/ updateStatusUnlock
    \/ triggerLatestCommitmentChanged
    \/ triggerLatestFinalizedCommitmentChanged
    \/ handlerRLock
    \/ handlerRUnlock
    \/ accessorRLock
    \/ accessorRUnlock

StatusLockFullSpec == StatusInit /\ [][StatusLockFullNext]_vars

\* ===================== the ledger-update stream next to the status stream
\* ListenToLedgerUpdates and listenToNodeStatus run in goroutines of their
\* own: a status update is applied between any two steps of the pump.

\* The statuses that move the latest commitment.
LedgerStatuses ==
    {st \in LockStatuses : st.finalized = INXCommitment(0, "ok")}

\* Connect applies the status it read (node_bridge.go:202-207), afterwards
\* processNodeStatus runs on the goroutine of the status stream.
LedgerStatusUpdate(incoming) ==
    /\ processNodeStatus(incoming)
    /\ UNCHANGED <<slotVars, readVars,
                   runVars,
                   callVars,
                   milestoneVars>>

\* The ledger-update stream is listened to once Connect has returned.
LedgerStatusNext ==
    \/ nodeStatus # Nil /\ pumpCallReceiver
    \/ \E outcome \in RecvOutcomes : pumpReceiverReturns(outcome)
    \/ \E consumerFails \in BOOLEAN : pumpConsumerReturns(consumerFails)
    \/ nodeStatus # Nil /\ CancelContext
    \/ \E incoming \in LedgerStatuses : LedgerStatusUpdate(incoming)

LedgerStatusSpec == StatusInit /\ [][LedgerStatusNext]_vars

\* ================= NodeBridge.Run and the INX component (component.go)
\* What the receiver function of the status stream returns.
StatusRecvOutcomes == {"item", "EOF", "Canceled", "error"}

\* provide (component.go:36-54): Connect reads the node status and hands it
\* to processNodeStatus (node_bridge.go:202-207) before the worker starts.
RunConnect(initial) ==
    /\ workerPc = "idle"
    /\ nodeStatus = Nil
    /\ processNodeStatus(initial)
    /\ UNCHANGED <<slotVars, readVars,
                   callVars,
                   milestoneVars>>

\* The background worker calls Run (component.go:57-59); Run derives c from
\* ctx, starts the goroutine and waits for c (node_bridge.go:211-220).
RunStarts ==
    /\ workerPc = "idle"
    /\ nodeStatus # Nil
    /\ workerPc' = "run"
    /\ runPc' = "wait"
    /\ listenerPc' = "open"
    /\ cDone' = parentDone
    /\ UNCHANGED <<listenerErr, parentDone, connClosed, selfShutdown>>
    /\ UNCHANGED <<statusVars, ledgerVars, lockVars, tangleVars, slotVars,
                   pumpVars, paramVars, powVars, pluginVars, readVars,
                   callVars,
                   milestoneVars>>

\* listenToNodeStatus opens the stream (part_008:209-213): a failure is
\* returned to the goroutine.
listenToNodeStatusOpens(fails) ==
    /\ listenerPc = "open"
    /\ IF fails
       THEN listenerPc' = "cancel" /\ listenerErr' = "error"
       ELSE listenerPc' = "recv" /\ UNCHANGED listenerErr
    /\ UNCHANGED <<runPc, parentDone, cDone, connClosed, workerPc,
                   selfShutdown>>
    /\ UNCHANGED <<statusVars, ledgerVars, lockVars, tangleVars, slotVars,
                   pumpVars, paramVars, powVars, pluginVars, readVars,
                   callVars,
                   milestoneVars>>

\* One round of ListenToStream (node_bridge.go:355-379) inside
\* listenToNodeStatus (part_008:215-220): io.EOF and codes.Canceled end the
\* loop with nil, another error is returned; an item is dropped when c is
\* done, else processNodeStatus consumes it and the loop goes on.
listenToNodeStatusRound(outcome, incoming) ==
    /\ listenerPc = "recv"
    /\ IF outcome = "item" /\ ~cDone
       THEN /\ processNodeStatus(incoming)
            /\ UNCHANGED <<slotVars, readVars,
                           callVars,
                           milestoneVars>>
       ELSE /\ listenerPc' = "cancel"
            /\ listenerErr' = IF outcome = "error" THEN "error" ELSE "nil"
            /\ UNCHANGED <<runPc, parentDone, cDone, connClosed, workerPc,
                           selfShutdown>>
            /\ UNCHANGED <<statusVars, ledgerVars, lockVars, tangleVars,
                           slotVars, pumpVars, paramVars, powVars,
                           pluginVars, readVars,
                           callVars,
                           milestoneVars>>

\* The goroutine logs the error, if any, and calls cancel()
\* (node_bridge.go:214-218).
listenerCancels ==
    /\ listenerPc = "cancel"
    /\ listenerPc' = "done"
    /\ cDone' = TRUE
    /\ UNCHANGED <<runPc, listenerErr, parentDone, connClosed, workerPc,
                   selfShutdown>>
    /\ UNCHANGED <<statusVars, ledgerVars, lockVars, tangleVars, slotVars,
                   pumpVars, paramVars, powVars, pluginVars, readVars,
                   callVars,
                   milestoneVars>>

\* The daemon cancels the context of the worker; the derived context is done
\* with it.
ParentCancelled ==
    /\ ~parentDone
    /\ parentDone' = TRUE
    /\ cDone' = (cDone \/ runPc # "new")
    /\ UNCHANGED <<runPc, listenerPc, listenerErr, connClosed, workerPc,
                   selfShutdown>>
    /\ UNCHANGED <<statusVars, ledgerVars, lockVars, tangleVars, slotVars,
                   pumpVars, paramVars, powVars, pluginVars, readVars,
                   callVars,
                   milestoneVars>>

\* <-c.Done() returns; Run closes the connection and returns
\* (node_bridge.go:220-222).
RunReturns ==
    /\ runPc = "wait"
    /\ cDone
    /\ connClosed' = TRUE
    /\ runPc' = "returned"
    /\ workerPc' = "check"
    /\ UNCHANGED <<listenerPc, listenerErr, parentDone, cDone, selfShutdown>>
    /\ UNCHANGED <<statusVars, ledgerVars, lockVars, tangleVars, slotVars,
                   pumpVars, paramVars, powVars, pluginVars, readVars,
                   callVars,
                   milestoneVars>>

\* Mutant: the worker asks for the shutdown whenever Run returned.
workerChecksAlways ==
    /\ workerPc = "check"
    /\ workerPc' = "done"
    /\ selfShutdown' = TRUE
    /\ UNCHANGED <<runPc, listenerPc, listenerErr, parentDone, cDone,
                   connClosed>>
    /\ UNCHANGED <<statusVars, ledgerVars, lockVars, tangleVars, slotVars,
                   pumpVars, paramVars, powVars, pluginVars, readVars,
                   callVars,
                   milestoneVars>>

\* After Run the worker reads ctx.Err() and calls SelfShutdown unless it is
\* context.Canceled (component.go:61-63).
workerChecks ==
    /\ workerPc = "check"
    /\ workerPc' = "done"
    /\ selfShutdown' = ~parentDone
    /\ UNCHANGED <<runPc, listenerPc, listenerErr, parentDone, cDone,
                   connClosed>>
    /\ UNCHANGED <<statusVars, ledgerVars, lockVars, tangleVars, slotVars,
                   pumpVars, paramVars, powVars, pluginVars, readVars,
                   callVars,
                   milestoneVars>>

RunNext ==
    \/ \E initial \in LedgerStatuses : RunConnect(initial)
    \/ RunStarts
    \/ \E fails \in BOOLEAN : listenToNodeStatusOpens(fails)
    \/ \E outcome \in StatusRecvOutcomes, incoming \in LedgerStatuses :
          listenToNodeStatusRound(outcome, incoming)
    \/ listenerCancels
    \/ ParentCancelled
    \/ RunReturns
    \/ workerChecks

\* The goroutines of Run, of the listener's cancel() and of the worker are
\* scheduled; the stream and the daemon owe nothing.
RunSpec ==
    /\ StatusInit
    /\ [][RunNext]_vars
    /\ WF_vars(listenerCancels)
    /\ WF_vars(RunReturns)
    /\ WF_vars(workerChecks)

\* ====== DeregisterBlockAcceptedCallback against go f (tangle_listener.go)
\* registerBlockAcceptedCallback stored callback c for the block
\* (tangle_listener.go:57, 81-91).
RegisteredFor(c, blockID) ==
    /\ callers[c].pc # "idle"
    /\ callers[c].blockID = blockID
    /\ callers[c].ret # ErrAlreadyRegistered

\* Mutant: the call returns without deleting the entry.
DeregisterCallKeepsEntry(blockID) ==
    /\ blockAcceptedCallbacksLock = "free"
    /\ deregistered' = [c \in CallerIDs |->
                           deregistered[c] \/ RegisteredFor(c, blockID)]
    /\ UNCHANGED <<begun, begunAfter>>
    /\ UNCHANGED tangleVars
    /\ UNCHANGED <<statusVars, ledgerVars, lockVars, slotVars, pumpVars,
                   paramVars, powVars, pluginVars, readVars, runVars,
                   milestoneVars>>

\* A call of DeregisterBlockAcceptedCallback from its entry to its return
\* (tangle_listener.go:93-98), whether or not the map holds the block.
DeregisterBlockAcceptedCallbackCall(blockID) ==
    /\ blockAcceptedCallbacksLock = "free"
    /\ blockAcceptedCallbacks' = Delete(blockAcceptedCallbacks, blockID)
    /\ removed' = [c \in CallerIDs |->
                      removed[c] \/ (/\ Has(blockAcceptedCallbacks, blockID)
                                     /\ blockAcceptedCallbacks[blockID] = c)]
    /\ deregistered' = [c \in CallerIDs |->
                           deregistered[c] \/ RegisteredFor(c, blockID)]
    /\ UNCHANGED <<begun, begunAfter>>
    /\ UNCHANGED <<nodeBlocks, acceptedStream, emitted, listenerState,
                   deliveries, blockAcceptedCallbacksLock, callers, invoked,
                   running, blockAcceptedListeners>>
    /\ UNCHANGED <<statusVars, ledgerVars, lockVars, slotVars, pumpVars,
                   paramVars, powVars, pluginVars, readVars, runVars,
                   milestoneVars>>

\* A call of ClearBlockAcceptedCallbacks from its entry to its return
\* (tangle_listener.go:100-105), whatever the map holds.
ClearBlockAcceptedCallbacksCall ==
    /\ blockAcceptedCallbacksLock = "free"
    /\ blockAcceptedCallbacks' = <<>>
    /\ removed' = [c \in CallerIDs |->
                      removed[c] \/ \E b \in DOMAIN blockAcceptedCallbacks :
                                        blockAcceptedCallbacks[b] = c]
    /\ deregistered' = [c \in CallerIDs |->
                           deregistered[c] \/ \E b \in BlockIDs :
                                                 RegisteredFor(c, b)]
    /\ UNCHANGED <<begun, begunAfter>>
    /\ UNCHANGED <<nodeBlocks, acceptedStream, emitted, listenerState,
                   deliveries, blockAcceptedCallbacksLock, callers, invoked,
                   running, blockAcceptedListeners>>
    /\ UNCHANGED <<statusVars, ledgerVars, lockVars, slotVars, pumpVars,
                   paramVars, powVars, pluginVars, readVars, runVars,
                   milestoneVars>>

\* The goroutine that go f(metadata) created (tangle_listener.go:111) is
\* scheduled and f begins.
CallbackBegins(c) ==
    /\ running[c]
    /\ ~begun[c]
    /\ begun' = [begun EXCEPT ![c] = TRUE]
    /\ begunAfter' = [begunAfter EXCEPT ![c] = deregistered[c]]
    /\ UNCHANGED deregistered
    /\ UNCHANGED tangleVars
    /\ UNCHANGED <<statusVars, ledgerVars, lockVars, slotVars, pumpVars,
                   paramVars, powVars, pluginVars, readVars, runVars,
                   milestoneVars>>

DeregisterNext ==
    \/ NodeNext
    \/ \E c \in FairCallerIDs, b \in BlockIDs :
          RegisterBlockAcceptedCallback(c, b, "app")
    \/ \E c \in FairCallerIDs, outcome \in {NotFound, ErrQuery, "pending"} \cup AcceptedStates :
          BlockMetadataReturns(c, outcome)
    \/ \E c \in FairCallerIDs : RegisterBlockAcceptedCallbackReturns(c)
    \/ \E b \in BlockIDs : DeregisterBlockAcceptedCallbackCall(b)
    \/ ClearBlockAcceptedCallbacksCall
    \/ \E c \in FairCallerIDs : CallbackBegins(c)
    \/ \E c \in FairCallerIDs : begun[c] /\ CallbackReturns(c)

DeregisterSpec == StatusInit /\ [][DeregisterNext]_vars

\* ============ the milestone-based bridge (part_000, api_route.go, part_003)
isNodeAlmostSyncedThreshold == 2

\* A uint32 is kept as two 16-bit halves, hi and lo.
Half == 2 ^ 16

\* The uint32 of a small natural number.
Uint32(n) == [hi |-> n \div Half, lo |-> n % Half]

\* The largest uint32.
MaxUint32 == [hi |-> Half - 1, lo |-> Half - 1]

\* x < y and x <= y on uint32.
Less32(x, y) == x.hi < y.hi \/ (x.hi = y.hi /\ x.lo < y.lo)
Leq32(x, y) == x = y \/ Less32(x, y)

\* x - k in uint32 arithmetic, for a k below 2^16: the result wraps around
\* below zero.
Sub32(x, k) ==
    IF x.lo >= k
    THEN [hi |-> x.hi, lo |-> x.lo - k]
    ELSE [hi |-> (x.hi + Half - 1) % Half, lo |-> x.lo + Half - k]

\* Event.Trigger(milestone): the handlers are called with the milestone.
Trigger(evs, e, milestone) ==
    [evs EXCEPT ![e] = [count |-> @.count + 1, milestone |-> milestone]]

\* The milestone indices the node reports: the first ones and the last one
\* a uint32 holds.
MilestoneIndices == {Uint32(n) : n \in 0..MaxMilestoneIndex} \cup {MaxUint32}

\* An *inx.Milestone as the node sends it: its index and whether its
\* payload decodes.
INXMilestones ==
    [index : MilestoneIndices, payload : {"ok", "bad"}]

\* GetMilestoneInfo().GetMilestoneIndex(): the getters return zero on nil.
GetMilestoneIndex(ms) == IF ms = Nil THEN Uint32(0) ELSE ms.index

\* An *inx.NodeStatus of the milestone-based node: the milestones may be
\* nil, and the confirmed milestone is not ahead of the latest one.
MilestoneStatuses ==
    {s \in [latest : INXMilestones \cup {Nil},
            confirmed : INXMilestones \cup {Nil}] :
        Leq32(GetMilestoneIndex(s.confirmed), GetMilestoneIndex(s.latest))}

\* milestoneFromINXMilestone (part_003:24-37): (nil, nil) without payload,
\* an error when the payload does not decode.
milestoneFromINXMilestone(ms) ==
    IF ms = Nil
    THEN [milestone |-> Nil, err |-> FALSE]
    ELSE IF ms.payload = "bad"
         THEN [milestone |-> Nil, err |-> TRUE]
         ELSE [milestone |-> [index |-> ms.index], err |-> FALSE]

\* IsNodeSynced (part_003:39-48).
IsNodeSynced ==
    /\ latestMilestone # Nil
    /\ confirmedMilestone # Nil
    /\ GetMilestoneIndex(latestMilestone) = GetMilestoneIndex(confirmedMilestone)

\* IsNodeAlmostSynced (part_003:50-59): the subtraction is made in uint32.
IsNodeAlmostSynced ==
    /\ latestMilestone # Nil
    /\ confirmedMilestone # Nil
    /\ Leq32(Sub32(GetMilestoneIndex(latestMilestone),
                   isNodeAlmostSyncedThreshold),
             GetMilestoneIndex(confirmedMilestone))

\* NewNodeBridge (part_000:63-80) stores the milestones of the status it
\* read; Run starts the two listeners (part_000:83-90).
NewMilestoneBridge(s) ==
    /\ \A t \in MilestoneThreads : milestonePc[t] = "new"
    /\ latestMilestone' = s.latest
    /\ confirmedMilestone' = s.confirmed
    /\ milestonePc' = [t \in MilestoneThreads |-> "idle"]
    /\ UNCHANGED <<milestoneArg, milestoneCtxDone, milestoneEvents>>
    /\ UNCHANGED <<statusVars, ledgerVars, lockVars, tangleVars, slotVars,
                   pumpVars, paramVars, powVars, pluginVars, readVars,
                   runVars, callVars>>

\* processLatestMilestone under isSyncedMutex (api_route.go:285-292), by
\* thread t, which goes on at pc next when nothing changed.
processLatestMilestoneLocked(t, ms, s, next) ==
    IF Less32(GetMilestoneIndex(latestMilestone), GetMilestoneIndex(ms))
    THEN /\ latestMilestone' = ms
         /\ milestonePc' = [milestonePc EXCEPT ![t] = "triggerLatest"]
         /\ milestoneArg' = [milestoneArg EXCEPT ![t] = s]
    ELSE /\ milestonePc' = [milestonePc EXCEPT ![t] = next]
         /\ milestoneArg' = [milestoneArg EXCEPT ![t] =
                                IF next = "idle" THEN Nil ELSE s]
         /\ UNCHANGED latestMilestone

\* processConfirmedMilestone under isSyncedMutex (api_route.go:302-309).
processConfirmedMilestoneLocked(t, ms) ==
    IF Less32(GetMilestoneIndex(confirmedMilestone), GetMilestoneIndex(ms))
    THEN /\ confirmedMilestone' = ms
         /\ milestonePc' = [milestonePc EXCEPT ![t] = "triggerConfirmed"]
         /\ milestoneArg' = [milestoneArg EXCEPT ![t] = [confirmed |-> ms]]
    ELSE /\ milestonePc' = [milestonePc EXCEPT ![t] = "idle"]
         /\ milestoneArg' = [milestoneArg EXCEPT ![t] = Nil]
         /\ UNCHANGED confirmedMilestone

\* stream.Recv of listenToLatestMilestones returns a milestone
\* (api_route.go:245-258): with the context done the loop is left, else
\* processLatestMilestone is called.
listenToLatestMilestonesRecv(ms) ==
    /\ milestonePc["latestStream"] = "idle"
    /\ IF milestoneCtxDone
       THEN /\ milestonePc' = [milestonePc EXCEPT !["latestStream"] = "stopped"]
            /\ UNCHANGED <<latestMilestone, milestoneArg>>
       ELSE processLatestMilestoneLocked("latestStream", ms,
                                         [latest |-> ms], "idle")
    /\ UNCHANGED <<confirmedMilestone, milestoneCtxDone, milestoneEvents>>
    /\ UNCHANGED <<statusVars, ledgerVars, lockVars, tangleVars, slotVars,
                   pumpVars, paramVars, powVars, pluginVars, readVars,
                   runVars, callVars>>

\* stream.Recv of listenToConfirmedMilestones returns a milestone
\* (api_route.go:267-280).
listenToConfirmedMilestonesRecv(ms) ==
    /\ milestonePc["confirmedStream"] = "idle"
    /\ IF milestoneCtxDone
       THEN /\ milestonePc' = [milestonePc EXCEPT !["confirmedStream"] = "stopped"]
            /\ UNCHANGED <<confirmedMilestone, milestoneArg>>
       ELSE processConfirmedMilestoneLocked("confirmedStream", ms)
    /\ UNCHANGED <<latestMilestone, milestoneCtxDone, milestoneEvents>>
    /\ UNCHANGED <<statusVars, ledgerVars, lockVars, tangleVars, slotVars,
                   pumpVars, paramVars, powVars, pluginVars, readVars,
                   runVars, callVars>>

\* stream.Recv of a listener returns an error (api_route.go:247-253,
\* 269-275): the loop is left and the deferred cancel() ends the context of
\* both listeners (240, 262).
listenToMilestonesFails(t) ==
    /\ t \in {"latestStream", "confirmedStream"}
    /\ milestonePc[t] = "idle"
    /\ milestonePc' = [milestonePc EXCEPT ![t] = "stopped"]
    /\ milestoneCtxDone' = TRUE
    /\ UNCHANGED <<latestMilestone, confirmedMilestone, milestoneArg,
                   milestoneEvents>>
    /\ UNCHANGED <<statusVars, ledgerVars, lockVars, tangleVars, slotVars,
                   pumpVars, paramVars, powVars, pluginVars, readVars,
                   runVars, callVars>>

\* NodeStatus() read the status s and calls processLatestMilestone with
\* its latest milestone (part_000:100-105).
NodeStatusCall(s) ==
    /\ milestonePc["caller"] = "idle"
    /\ processLatestMilestoneLocked("caller", s.latest, s, "processConfirmed")
    /\ UNCHANGED <<confirmedMilestone, milestoneCtxDone, milestoneEvents>>
    /\ UNCHANGED <<statusVars, ledgerVars, lockVars, tangleVars, slotVars,
                   pumpVars, paramVars, powVars, pluginVars, readVars,
                   runVars, callVars>>

\* processLatestMilestone after the lock was released
\* (api_route.go:294-299): the milestone is decoded and, without error,
\* LatestMilestoneChanged is triggered with it.
triggerLatest(t) ==
    /\ milestonePc[t] = "triggerLatest"
    /\ LET r == milestoneFromINXMilestone(milestoneArg[t].latest)
       IN  milestoneEvents' =
              IF r.err
              THEN milestoneEvents
              ELSE Trigger(milestoneEvents, "LatestMilestoneChanged",
                           r.milestone)
    /\ milestonePc' = [milestonePc EXCEPT ![t] =
                          IF t = "caller" THEN "processConfirmed" ELSE "idle"]
    /\ milestoneArg' = [milestoneArg EXCEPT ![t] =
                           IF t = "caller" THEN @ ELSE Nil]
    /\ UNCHANGED <<latestMilestone, confirmedMilestone, milestoneCtxDone>>
    /\ UNCHANGED <<statusVars, ledgerVars, lockVars, tangleVars, slotVars,
                   pumpVars, paramVars, powVars, pluginVars, readVars,
                   runVars, callVars>>

\* NodeStatus() calls processConfirmedMilestone with the confirmed
\* milestone of the status (part_000:106).
NodeStatusProcessConfirmed ==
    /\ milestonePc["caller"] = "processConfirmed"
    /\ processConfirmedMilestoneLocked("caller",
                                       milestoneArg["caller"].confirmed)
    /\ UNCHANGED <<latestMilestone, milestoneCtxDone, milestoneEvents>>
    /\ UNCHANGED <<statusVars, ledgerVars, lockVars, tangleVars, slotVars,
                   pumpVars, paramVars, powVars, pluginVars, readVars,
                   runVars, callVars>>

\* processConfirmedMilestone after the lock was released
\* (api_route.go:311-316).
triggerConfirmed(t) ==
    /\ milestonePc[t] = "triggerConfirmed"
    /\ LET r == milestoneFromINXMilestone(milestoneArg[t].confirmed)
       IN  milestoneEvents' =
              IF r.err
              THEN milestoneEvents
              ELSE Trigger(milestoneEvents, "ConfirmedMilestoneChanged",
                           r.milestone)
    /\ milestonePc' = [milestonePc EXCEPT ![t] = "idle"]
    /\ milestoneArg' = [milestoneArg EXCEPT ![t] = Nil]
    /\ UNCHANGED <<latestMilestone, confirmedMilestone, milestoneCtxDone>>
    /\ UNCHANGED <<statusVars, ledgerVars, lockVars, tangleVars, slotVars,
                   pumpVars, paramVars, powVars, pluginVars, readVars,
                   runVars, callVars>>

MilestoneNext ==
    \/ \E s \in MilestoneStatuses : NewMilestoneBridge(s)
    \/ \E ms \in INXMilestones : listenToLatestMilestonesRecv(ms)
    \/ \E ms \in INXMilestones : listenToConfirmedMilestonesRecv(ms)
    \/ \E t \in MilestoneThreads : listenToMilestonesFails(t)
    \/ \E s \in MilestoneStatuses : NodeStatusCall(s)
    \/ \E t \in MilestoneThreads : triggerLatest(t)
    \/ NodeStatusProcessConfirmed
    \/ \E t \in MilestoneThreads : triggerConfirmed(t)

MilestoneSpec == StatusInit /\ [][MilestoneNext]_vars

\* ============================================================== claims
\* ------------------------------------- the received sequence, read back
\* What the claims say about batches is stated on the history `received`,
\* independently of the accumulator.
OpAt(k) == received[k].op
IsOutputOp(k) == OpAt(k) \in {"CONSUMED", "CREATED"}
\* The identity proof of a record binds its claimed output ID.
ProofBinds(o) == o.derived = o.outputID
NumEnds(k) == Cardinality({m \in 1..k : OpAt(m) = "END"})
NumBegins(k) == Cardinality({m \in 1..k : OpAt(m) = "BEGIN"})
\* A begin-marker among the first k payloads has no end-marker after it.
OpenAfter(k) ==
    \E i \in 1..k : OpAt(i) = "BEGIN" /\ \A m \in (i+1)..k : OpAt(m) # "END"
\* The begin-marker of the batch that is open after the first k payloads.
BatchStart(k) ==
    CHOOSE i \in 1..k :
        OpAt(i) = "BEGIN" /\ \A m \in (i+1)..k : OpAt(m) \notin {"BEGIN", "END"}
\* Output IDs of the records of kind op strictly between i and j, in order.
IDsBetween(i, j, op) ==
    LET picked == SelectSeq(SubSeq(received, i + 1, j - 1), LAMBDA r : r.op = op)
    IN  [m \in 1..Len(picked) |-> picked[m].output.outputID]
\* The end-marker at j agrees with the begin-marker at i and the records
\* between them.
EndMatches(i, j) ==
    /\ received[j].commitmentID = received[i].commitmentID
    /\ received[j].consumedCount = Len(IDsBetween(i, j, "CONSUMED"))
    /\ received[j].createdCount = Len(IDsBetween(i, j, "CREATED"))
\* Payloads i..j are one batch: a begin-marker, records with binding
\* identity proofs, and a matching end-marker.
WellFormedBatch(i, j) ==
    /\ 1 <= i /\ i < j /\ j <= Len(received)
    /\ OpAt(i) = "BEGIN" /\ OpAt(j) = "END"
    /\ \A k \in (i+1)..(j-1) : IsOutputOp(k) /\ ProofBinds(received[k].output)
    /\ EndMatches(i, j)
Batches ==
    {b \in (1..Len(received)) \X (1..Len(received)) : WellFormedBatch(b[1], b[2])}
\* Every received payload belongs to a well-formed batch.
Partitioned ==
    \A k \in 1..Len(received) : \E b \in Batches : b[1] <= k /\ k <= b[2]
\* Payload k breaks the marker protocol.
ViolationAt(k) ==
    LET r == received[k]
        open == OpenAfter(k - 1)
    IN  \/ r.op = "BEGIN" /\ open
        \/ r.op # "BEGIN" /\ ~open
        \/ IsOutputOp(k) /\ open /\ ~ProofBinds(r.output)
        \/ r.op = "END" /\ open /\ ~EndMatches(BatchStart(k - 1), k)
IsError(r) == r \notin {Running, Success}
OutputIDsOf(outs) == [m \in 1..Len(outs) |-> outs[m].OutputID]

\* C1 (as claimed): the consumer is invoked exactly for the well-formed
\* batches, and every received sequence that is not a series of well-formed
\* batches makes ListenToLedgerUpdates return an error.
C1_EveryOtherSequenceIsAnError ==
    /\ Len(delivered) = Cardinality(Batches)
    /\ (result # Running /\ ~Partitioned) => IsError(result)

\* C1 (amended): the consumer is invoked exactly for the well-formed batches;
\* a payload that breaks the marker protocol (double begin, stray record or
\* end-marker, mismatched end-marker, record whose identity proof does not
\* bind) is the last one processed and makes ListenToLedgerUpdates return an
\* error; a sequence that is otherwise not a series of well-formed batches
\* only stops inside an open batch, which is not delivered, and the listener
\* then returns success or the receive error.
C1_DeliveredIffWellFormed ==
    /\ Len(delivered) = Cardinality(Batches)
    /\ \A k \in 1..Len(received) :
          ViolationAt(k) =>
              /\ k = Len(received)
              /\ IsError(result)
              /\ stop = "consumerFunc"
    /\ (/\ result # Running
        /\ ~Partitioned
        /\ \A k \in 1..Len(received) : ~ViolationAt(k))
       => /\ update # Nil
          /\ result \in {Success, ErrRecv}

\* A batch was delivered and a later batch ends with a mismatching marker.
C1_Witness ==
    /\ Len(delivered) = 1
    /\ result = ErrLedgerUpdateEndedAbruptly

\* The pump left its loop on end-of-stream, stream cancellation or the end
\* of the context while a batch was open.
StoppedMidBatch ==
    /\ stop \in {"eof", "canceled", "ctx"}
    /\ update # Nil

\* C2 (as claimed): when the stream stops while a batch is open,
\* ListenToLedgerUpdates returns an error.
C2_TruncationIsAnError ==
    StoppedMidBatch => IsError(result)

\* C2 (amended): when the stream stops while a batch is open, the partial
\* batch is not delivered (the consumer was invoked once per end-marker
\* received before) and ListenToLedgerUpdates returns success.
C2_TruncationNotDelivered ==
    StoppedMidBatch =>
        /\ result = Success
        /\ Len(delivered) = NumEnds(Len(received))
        /\ NumBegins(Len(received)) = Len(delivered) + 1

\* The stream ended after a begin-marker and one consumed record.
C2_Witness ==
    /\ stop = "eof"
    /\ update # Nil
    /\ Len(update.Consumed) = 1

\* C3: an end-marker received while a batch is open delivers the batch only
\* if the consumed count, the created count and the commitment ID all agree
\* with what was accumulated; otherwise ListenToLedgerUpdates returns
\* ErrLedgerUpdateEndedAbruptly and the consumer is not invoked.
C3_EndMarkerMustMatch ==
    \A k \in 1..Len(received) :
        (OpAt(k) = "END" /\ OpenAfter(k - 1)) =>
            IF EndMatches(BatchStart(k - 1), k)
            THEN /\ Len(delivered) >= NumEnds(k)
                 /\ delivered[NumEnds(k)].CommitmentID = received[k].commitmentID
            ELSE /\ k = Len(received)
                 /\ result = ErrLedgerUpdateEndedAbruptly
                 /\ Len(delivered) = NumEnds(k - 1)

\* begin, one consumed record, end declaring two consumed records.
C3_Witness ==
    /\ Len(received) = 3
    /\ OpAt(2) = "CONSUMED"
    /\ OpAt(3) = "END"
    /\ received[3].consumedCount = 2
    /\ received[3].commitmentID = received[1].commitmentID
    /\ result = ErrLedgerUpdateEndedAbruptly
    /\ delivered = <<>>

\* C4: at most one accumulator is open at a time, and a begin-marker
\* received while a batch is open makes ListenToLedgerUpdates return
\* ErrLedgerUpdateTransactionAlreadyInProgress with neither batch delivered.
C4_SingleOpenBatch ==
    /\ \A k \in 1..Len(received) :
          (OpAt(k) = "BEGIN" /\ OpenAfter(k - 1)) =>
              /\ k = Len(received)
              /\ result = ErrLedgerUpdateTransactionAlreadyInProgress
              /\ Len(delivered) = NumEnds(k)
              /\ NumBegins(k) = Len(delivered) + 2
    /\ result = Running =>
          /\ NumBegins(Len(received)) - Len(delivered) \in {0, 1}
          /\ (update # Nil) <=> (NumBegins(Len(received)) - Len(delivered) = 1)

\* A second begin-marker arrived after a record of the open batch.
C4_Witness ==
    /\ result = ErrLedgerUpdateTransactionAlreadyInProgress
    /\ Len(received) = 3
    /\ OpAt(2) = "CREATED"
    /\ update # Nil

\* C5: a consumed record, a created record or an end-marker received while
\* no batch is open makes ListenToLedgerUpdates return
\* ErrLedgerUpdateInvalidOperation, without a consumer invocation.
C5_NoActiveTransaction ==
    \A k \in 1..Len(received) :
        (OpAt(k) \in {"CONSUMED", "CREATED", "END"} /\ ~OpenAfter(k - 1)) =>
            /\ k = Len(received)
            /\ result = ErrLedgerUpdateInvalidOperation
            /\ update = Nil
            /\ Len(delivered) = NumEnds(k - 1)

\* A stray created record right after a delivered batch.
C5_Witness ==
    /\ Len(delivered) = 1
    /\ result = ErrLedgerUpdateInvalidOperation
    /\ OpAt(Len(received)) = "CREATED"

\* The end-marker that closed the j-th delivered batch.
EndIndex(j) == CHOOSE k \in 1..Len(received) : OpAt(k) = "END" /\ NumEnds(k) = j

\* C6: the j-th update handed to the consumer is the j-th well-formed batch
\* of the stream: it carries the commitment ID of its begin-marker, its
\* Consumed list is exactly the consumed records between its markers in
\* arrival order and its Created list exactly the created records; each
\* well-formed batch is delivered once.
C6_UpdateIsItsBatch ==
    /\ Len(delivered) = Cardinality(Batches)
    /\ \A j \in 1..Len(delivered) :
          LET e == EndIndex(j)
              b == BatchStart(e - 1)
          IN  /\ WellFormedBatch(b, e)
              /\ delivered[j].CommitmentID = received[b].commitmentID
              /\ OutputIDsOf(delivered[j].Consumed) = IDsBetween(b, e, "CONSUMED")
              /\ OutputIDsOf(delivered[j].Created) = IDsBetween(b, e, "CREATED")
              /\ \A m \in 1..Len(delivered[j].Consumed) : delivered[j].Consumed[m].IsSpent
              /\ \A m \in 1..Len(delivered[j].Created) : ~delivered[j].Created[m].IsSpent

\* The clean batch: one consumed record, two different created records.
C6_Witness ==
    /\ Len(delivered) = 1
    /\ Len(delivered[1].Consumed) = 1
    /\ Len(delivered[1].Created) = 2
    /\ delivered[1].Created[1] # delivered[1].Created[2]
    /\ result = Running

\* C7: unwrapOutput yields an Output only if the output ID derived from the
\* identity proof equals the claimed one, and fails otherwise; in
\* ListenToLedgerUpdates a record that fails to unwrap ends the listener
\* with that error, and the enclosing batch is never delivered.
C7_IdentityProofBinds ==
    /\ \A o \in LedgerOutputs, spent \in BOOLEAN :
          LET r == unwrapOutput(o, spent, latestCommitmentID)
          IN  /\ r.err <=> ~ProofBinds(o)
              /\ ~r.err => r.output.OutputID = o.derived
    /\ \A k \in 1..Len(received) :
          (IsOutputOp(k) /\ OpenAfter(k - 1) /\ ~ProofBinds(received[k].output)) =>
              /\ k = Len(received)
              /\ result = (IF OpAt(k) = "CONSUMED" THEN ErrUnwrapConsumed
                                                  ELSE ErrUnwrapCreated)
              /\ Len(delivered) = NumEnds(k)
              /\ Len(delivered) = NumBegins(k) - 1

\* A consumed record whose proof derives another output ID than it claims.
C7_Witness ==
    /\ result = ErrUnwrapConsumed
    /\ received[Len(received)].output.derived \in OutputIDs

\* ------------------------------------------------- node-status claims
\* C8 (as claimed): from one update to the next, the slot of the cached
\* latest commitment never decreases, and neither does the slot of the
\* cached latest finalized commitment.
C8_CachedSlotNeverDecreases ==
    [][/\ (latestCommitment # Nil /\ latestCommitment' # Nil) =>
              Slot(latestCommitment'.CommitmentID) >=
                  Slot(latestCommitment.CommitmentID)
       /\ (latestFinalizedCommitment # Nil /\ latestFinalizedCommitment' # Nil) =>
              Slot(latestFinalizedCommitment'.CommitmentID) >=
                  Slot(latestFinalizedCommitment.CommitmentID)]_vars

\* C9: after the first applied update, as long as every update carries a
\* slot lower than or equal to the slot of the update before it, the cached
\* commitment is the one the first update left and no change event was
\* fired; for the latest and the latest finalized commitment alike.
C9_StaleUpdatesIgnored ==
    baseline # Nil =>
        /\ baseline.latestStale =>
              /\ latestCommitment = baseline.latest
              /\ ~baseline.latestFired
        /\ baseline.finalizedStale =>
              /\ latestFinalizedCommitment = baseline.finalized
              /\ ~baseline.finalizedFired

\* The cache holds a commitment of a higher slot than the update applied
\* last, which carried a decodable commitment and fired nothing.
C9_Witness ==
    /\ baseline # Nil
    /\ baseline.latestStale
    /\ latestCommitment # Nil
    /\ nodeStatus.latest.payload = "ok"
    /\ Slot(nodeStatus.latest.commitmentID) < Slot(latestCommitment.CommitmentID)
    /\ fired = <<>>

EventsOf(e) == {i \in 1..Len(fired) : fired[i].event = e}

\* C10 (as claimed): an update fires the change event of a commitment field
\* if and only if it replaced the cached commitment of that field, once, and
\* the event carries the commitment the update stored in the cache.
C10_EventIffReplaced ==
    /\ Cardinality(EventsOf(LatestCommitmentChanged)) =
          (IF stored.latest THEN 1 ELSE 0)
    /\ \A i \in EventsOf(LatestCommitmentChanged) :
          fired[i].commitment = latestCommitment
    /\ Cardinality(EventsOf(LatestFinalizedCommitmentChanged)) =
          (IF stored.finalized THEN 1 ELSE 0)
    /\ \A i \in EventsOf(LatestFinalizedCommitmentChanged) :
          fired[i].commitment = latestFinalizedCommitment

\* ------------------------------------------------------------------ C11
\* C11: the change events are triggered only after the write lock of the
\* status cache has been released: while an event is being triggered or
\* its handler runs the writer does not hold the lock, and a handler that
\* asks for the read lock can take it, so the status goroutine never waits
\* for a lock it holds itself.
C11_EventsAfterUnlock ==
    /\ statusPc \in {"triggerLatest", "inLatestHandler", "triggerFinalized",
                     "inFinalizedHandler"}
          => ~nodeStatusMutex.writer
    /\ handlerPc = "RLock" => ENABLED handlerRLock

\* The handler of the second event of one update holds the read lock
\* together with another reader.
C11_Witness ==
    /\ statusPc = "inFinalizedHandler"
    /\ handlerPc = "RUnlock"
    /\ readerPc = "reading"
    /\ Len(fired) = 2

\* ------------------------------------------------------------------ C12
\* The incoming status of a step is nodeStatus'; a field is due for
\* replacement when its slot passes the guard of part_008:236, 242.
LatestDue ==
    slotAdvanced(nodeStatus'.latest,
                 IF nodeStatus = Nil THEN Nil ELSE nodeStatus.latest)
FinalizedDue ==
    slotAdvanced(nodeStatus'.finalized,
                 IF nodeStatus = Nil THEN Nil ELSE nodeStatus.finalized)
FiredWith(events, e, c) ==
    \E i \in 1..Len(events) : events[i] = [event |-> e, commitment |-> c]
FiredEvent(events, e) ==
    \E i \in 1..Len(events) : events[i].event = e

\* C12: when a field of a status update is due for replacement and its
\* commitment fails to decode, the cached value of that field stays and its
\* event is not fired, while the other field, when due and decodable, is
\* replaced by the incoming commitment and announced with it.
C12_DecodeFailureIsLocal ==
    [][ /\ (FinalizedDue /\ nodeStatus'.finalized.payload = "bad") =>
            /\ latestFinalizedCommitment' = latestFinalizedCommitment
            /\ ~FiredEvent(fired', LatestFinalizedCommitmentChanged)
            /\ (LatestDue /\ nodeStatus'.latest.payload # "bad") =>
                  /\ latestCommitment' =
                        commitmentFromINXCommitment(nodeStatus'.latest).commitment
                  /\ FiredWith(fired', LatestCommitmentChanged, latestCommitment')
        /\ (LatestDue /\ nodeStatus'.latest.payload = "bad") =>
            /\ latestCommitment' = latestCommitment
            /\ ~FiredEvent(fired', LatestCommitmentChanged)
            /\ (FinalizedDue /\ nodeStatus'.finalized.payload # "bad") =>
                  /\ latestFinalizedCommitment' =
                        commitmentFromINXCommitment(nodeStatus'.finalized).commitment
                  /\ FiredWith(fired', LatestFinalizedCommitmentChanged,
                               latestFinalizedCommitment')
      ]_vars

\* ------------------------------------------------------------------ C13
\* C13: a one-shot callback runs at most once however the immediate
\* trigger of RegisterBlockAcceptedCallback and the stream deliveries for
\* its block interleave, duplicates included: a callback that is still in
\* the map has not been started, one that was started is started only once.
C13_CallbackInvokedOnce ==
    \A c \in CallerIDs :
        /\ invoked[c] <= 1
        /\ (\E b \in DOMAIN blockAcceptedCallbacks :
                blockAcceptedCallbacks[b] = c) => invoked[c] = 0

\* The query of a registration reported the block accepted, the call has
\* returned, the listener has consumed the record of the block and a
\* duplicate of it, and the callback has run once.
C13_Witness ==
    \E c \in CallerIDs :
        /\ callers[c].pc = "returned"
        /\ callers[c].metadata \in AcceptedStates
        /\ deliveries[callers[c].blockID] = 2
        /\ invoked[c] = 1

\* ------------------------------------------------------------------ C14
\* C14: a RegisterBlockAcceptedCallback call for a block ID that has a
\* pending callback returns ErrAlreadyRegistered and leaves the map as it
\* is; a call for a block ID without a pending callback, also one whose
\* callback has fired before and also a call from inside a callback, puts
\* the caller's callback in the map.
C14_OnePendingCallbackPerBlock ==
    [][ \A c \in CallerIDs :
          (callers[c].pc = "idle" /\ callers'[c].pc # "idle") =>
             LET b == callers'[c].blockID
             IN  IF Has(blockAcceptedCallbacks, b)
                 THEN /\ callers'[c].ret = ErrAlreadyRegistered
                      /\ blockAcceptedCallbacks' = blockAcceptedCallbacks
                 ELSE /\ callers'[c].pc = "BlockMetadata"
                      /\ Has(blockAcceptedCallbacks', b)
                      /\ blockAcceptedCallbacks'[b] = c
      ]_vars

\* A callback registered for a block has fired and, from inside it, the
\* same block ID has been registered again.
C14_Witness ==
    \E c1, c2 \in CallerIDs :
        /\ c1 # c2
        /\ invoked[c1] = 1
        /\ running[c1]
        /\ callers[c2].origin = c1
        /\ callers[c2].blockID = callers[c1].blockID
        /\ Has(blockAcceptedCallbacks, callers[c2].blockID)
        /\ blockAcceptedCallbacks[callers[c2].blockID] = c2

\* ------------------------------------------------------------------ C16
\* C16: when the metadata query of RegisterBlockAcceptedCallback fails, the
\* call returns nil for a block that is not found and the error for any
\* other failure, and in both cases it leaves the callback map as it is
\* and starts no callback.
C16_QueryFailureKeepsCallback ==
    [][ \A c \in CallerIDs :
          (callers[c].pc = "BlockMetadata" /\ callers'[c].pc = "returned") =>
             /\ callers'[c].metadata \in {NotFound, ErrQuery}
             /\ callers'[c].metadata = NotFound => callers'[c].ret = Success
             /\ callers'[c].metadata = ErrQuery => callers'[c].ret = ErrQuery
             /\ blockAcceptedCallbacks' = blockAcceptedCallbacks
             /\ invoked' = invoked
      ]_vars

\* One call has returned nil after a not-found query, another has returned
\* the error of its query, and both callbacks are pending.
C16_Witness ==
    \E c1, c2 \in CallerIDs :
        /\ callers[c1].pc = "returned"
        /\ callers[c1].metadata = NotFound
        /\ callers[c1].ret = Success
        /\ callers[c2].pc = "returned"
        /\ callers[c2].ret = ErrQuery
        /\ \A c \in {c1, c2} :
              /\ Has(blockAcceptedCallbacks, callers[c].blockID)
              /\ blockAcceptedCallbacks[callers[c].blockID] = c
              /\ invoked[c] = 0

\* ------------------------------------------------------------------ C19
\* C19: a one-shot callback runs in a goroutine of its own: while a
\* callback has not returned the callback lock is free, the listener can
\* consume the next record in flight, a caller can register a callback
\* and a pending callback can be deregistered.
C19_CallbackRunsAsynchronously ==
    (\E c \in CallerIDs : running[c]) =>
        /\ blockAcceptedCallbacksLock = "free"
        /\ (listenerState = "running" /\ acceptedStream # <<>>) =>
              ENABLED listenToAcceptedBlocksRecv(FALSE)
        /\ \A c2 \in CallerIDs, b \in BlockIDs :
              callers[c2].pc = "idle" =>
                 ENABLED RegisterBlockAcceptedCallback(c2, b, "app")
        /\ \A b \in DOMAIN blockAcceptedCallbacks :
              ENABLED DeregisterBlockAcceptedCallback(b)

\* A callback started by the stream has not returned, and the listener has
\* consumed the record of another block and started that block's callback.
C19_Witness ==
    \E c1, c2 \in CallerIDs :
        /\ c1 # c2
        /\ running[c1]
        /\ running[c2]
        /\ callers[c1].blockID # callers[c2].blockID
        /\ deliveries[callers[c1].blockID] = 1
        /\ deliveries[callers[c2].blockID] = 1
        /\ callers[c1].metadata \notin AcceptedStates
        /\ callers[c2].metadata \notin AcceptedStates

\* ------------------------------------------------------------------ C15
\* C15: once RegisterBlockAcceptedCallback has returned nil for a block and
\* the node has accepted the block, before the query or after it, the
\* callback is eventually started, unless it is deregistered or the
\* accepted-blocks listener stops.
C15_NoMissedAcceptance ==
    \A c \in CallerIDs :
        (/\ callers[c].ret = Success
         /\ nodeBlocks[callers[c].blockID] = "accepted")
        ~> (\/ invoked[c] >= 1
            \/ removed[c]
            \/ listenerState # "running")

\* A registration whose query found the block unknown has had its callback
\* started by a later stream delivery, with the listener still running.
C15_Witness ==
    \E c \in CallerIDs :
        /\ callers[c].ret = Success
        /\ callers[c].metadata = NotFound
        /\ invoked[c] = 1
        /\ ~removed[c]
        /\ listenerState = "running"

\* ------------------------------------------------------------------ C17
\* C17 as stated: when the metadata query of RegisterBlockAcceptedEvent
\* fails with an error other than not-found, the listener registered for
\* the block is left in place.
C17_ListenerLeftInPlace ==
    \A l \in ListenerIDs :
        blockAcceptedListeners[l].ret = ErrQuery =>
            blockAcceptedListeners[l].state = "registered"

\* C17, amended: when the metadata query of RegisterBlockAcceptedEvent
\* fails with an error other than not-found, the error is returned, the
\* listener registered for the block is deregistered and no listener is
\* returned; after a not-found query the listener is returned, and it stays
\* registered until its caller deregisters it.
C17_ListenerDeregisteredOnError ==
    \A l \in ListenerIDs :
        /\ blockAcceptedListeners[l].ret = ErrQuery =>
              /\ blockAcceptedListeners[l].state = "deregistered"
              /\ ~blockAcceptedListeners[l].handle
        /\ (blockAcceptedListeners[l].pc = "returned"
            /\ blockAcceptedListeners[l].metadata = NotFound) =>
              /\ blockAcceptedListeners[l].ret = Success
              /\ blockAcceptedListeners[l].handle

\* A call has returned the error of its query while another listener for
\* the same block is registered.
C17_Witness ==
    \E l1, l2 \in ListenerIDs :
        /\ blockAcceptedListeners[l1].ret = ErrQuery
        /\ blockAcceptedListeners[l2].state = "registered"
        /\ blockAcceptedListeners[l2].pc = "returned"
        /\ blockAcceptedListeners[l2].blockID = blockAcceptedListeners[l1].blockID

\* ------------------------------------------------------------------ C18
\* C18: every listener that was registered for a block when a delivery for
\* it took place, from the stream or from an immediate notify, has been
\* signalled, however many there are; and a step that deregisters one
\* listener leaves the other listeners as they were, neither signalled nor
\* removed.
C18_AllListenersObserveDelivery ==
    [][ /\ \A l \in ListenerIDs :
              blockAcceptedListeners'[l].witnessed =>
                  blockAcceptedListeners'[l].signalled
        /\ \A l \in ListenerIDs :
              (/\ blockAcceptedListeners[l].state = "registered"
               /\ blockAcceptedListeners'[l].state = "deregistered") =>
                  \A other \in ListenerIDs \ {l} :
                      blockAcceptedListeners'[other] = blockAcceptedListeners[other]
      ]_vars

\* All listeners are registered for one block and signalled by a single
\* delivery of the stream.
C18_Witness ==
    \E b \in BlockIDs :
        /\ deliveries[b] = 1
        /\ \A l \in ListenerIDs :
              /\ blockAcceptedListeners[l].state = "registered"
              /\ blockAcceptedListeners[l].blockID = b
              /\ blockAcceptedListeners[l].metadata \notin AcceptedStates
              /\ blockAcceptedListeners[l].signalled

\* ------------------------------------------------------------------ C20
\* C20: a listener of RegisterSlotConfirmedEvent(S) has been notified once
\* S was confirmed at its registration or a later status update made the
\* cached latest finalized commitment reach a slot greater than or equal
\* to S, also when that update went past S.
C20_SlotListenerNotified ==
    \A l \in SlotListenerIDs :
        (/\ slotListeners[l].pc = "returned"
         /\ slotListeners[l].due
         /\ statusState = "ok"
         /\ ~hookPanic)
        => slotListeners[l].signalled

\* C21: ListenToStream returns nil when the receive reports io.EOF or a
\* gRPC cancellation, returns the receive error for every other receive
\* error, and returns the consumer's error as soon as the consumer fails;
\* once it has returned no receive call is issued.
C21_PumpReturnValues ==
    [][/\ stop' \in {"eof", "canceled"} => result' = Success
       /\ stop' = "recvErr" => result' = ErrRecv
       /\ stop' = "consumerFunc" =>
             /\ IsError(result') /\ result' # ErrRecv
             /\ pumpPc' = "done"
       /\ (pumpPc = "consume" /\ IsError(result')) => stop' = "consumerFunc"
       /\ result # Running => recvCalls' = recvCalls]_vars

\* The consumer failed on the second item, after two receive calls.
C21_Witness ==
    /\ stop = "consumerFunc"
    /\ recvCalls = 2
    /\ Len(received) = 2
    /\ pumpPc = "done"

\* C22: once the context is cancelled or has expired, whatever the pending
\* receive call returns, ListenToStream returns nil and the consumer is not
\* invoked for the item.
C22_CleanExitOnceContextEnded ==
    [][(ctxDone /\ pumpPc = "recv") =>
          (result' = Success /\ arrived' = arrived)]_vars

\* C23 as stated: with the context cancelled at the top of an iteration no
\* receive call is issued in it.
C23_NoReceiveAfterCancel ==
    [][(ctxDone /\ pumpPc = "top") => recvCalls' = recvCalls]_vars

\* C23: the context is looked at after each receive that returned an item
\* and before the consumer is called: with the context cancelled by then the
\* item is dropped, the consumer is not called for it and the pump returns
\* nil; the receive itself is issued whether or not the context is
\* cancelled, and a receive error other than io.EOF and cancellation is
\* still returned.
C23_ContextCheckedAfterReceive ==
    [][(ctxDone /\ pumpPc = "recv") =>
          /\ pumpPc' = "done"
          /\ consuming' = 0
          /\ arrived' = arrived
          /\ delivered' = delivered
          /\ stop' \in {"ctx", "eof", "canceled", "recvErr"}
          /\ stop' = "ctx" => result' = Success]_vars

\* The context was cancelled before the first receive, the receive was
\* issued all the same and the item it returned was dropped.
C23_Witness ==
    /\ stop = "ctx"
    /\ result = Success
    /\ recvCalls = 1
    /\ arrived = <<>>

\* C24: the consumer is invoked once per received item, in arrival order
\* and for one item at a time, and no receive is issued before the consumer
\* call for the current item has returned; the ledger-update consumer has
\* been called for every end-marker before the next record is received.
C24_OneItemAtATime ==
    /\ consuming \in {0, 1}
    /\ consuming = 1 <=> pumpPc = "consume"
    /\ pumpPc = "consume" => arrived = Append(received, pumpItem)
    /\ pumpPc # "consume" => arrived = received
    /\ pumpPc \in {"top", "recv"} =>
          /\ result = Running
          /\ Len(delivered) = NumEnds(Len(received))
    /\ recvCalls \in {Len(arrived), Len(arrived) + 1}

\* A receive is pending for the first record of the second batch, the first
\* batch has been handed to the consumer.
C24_Witness ==
    /\ pumpPc = "recv"
    /\ Len(received) = 3
    /\ OpAt(3) = "END"
    /\ Len(delivered) = 1
    /\ recvCalls = 4

C26_AllOrNothing ==
    [][(lastStatus' # lastStatus) =>
          IF lastStatus'.err # "nil"
          THEN /\ nodeStatus' = nodeStatus
               /\ protocolParameters' = protocolParameters
          ELSE /\ nodeStatus' = lastStatus'.status
               /\ protocolParameters' =
                     protocolParametersFromRaw(lastStatus'.status.params).protoParams]_vars

\* C27 as stated: with the context cancelled when a search attempt returns,
\* DoPoW fails with ErrOperationAborted whatever the attempt returned, and
\* no nonce is written into the block.
C27_AbortedWhateverTheAttempt ==
    (powPc = "done" /\ attempt # Nil /\ powCtxDone) =>
        /\ powRet = PowReturn(0, ErrOperationAborted)
        /\ block.Nonce = powInput.block.Nonce

\* C27: with the context cancelled when a search attempt returns without a
\* nonce (timed out, cancelled or failed), DoPoW fails with
\* ErrOperationAborted and writes no nonce into the block; an attempt that
\* found a nonce is not affected by the context: the nonce is written into
\* the block and DoPoW returns the size of the block.
C27_AbortedUnlessNonceFound ==
    (powPc = "done" /\ attempt # Nil /\ powCtxDone) =>
        IF attempt.kind = "found"
        THEN /\ powRet = PowReturn(Len(powData) + nonceBytes, "nil")
             /\ block.Nonce = attempt.nonce
        ELSE /\ powRet = PowReturn(0, ErrOperationAborted)
             /\ block.Nonce = powInput.block.Nonce

\* The context was cancelled and the search returned a nonce all the same.
C27_Witness ==
    /\ powPc = "done"
    /\ powCtxDone
    /\ attempt # Nil
    /\ attempt.kind = "found"
    /\ powInput.block.Nonce = 0
    /\ block.Nonce = 7

\* C28 as stated: with a refresh function the loop of DoPoW ends only with
\* a found nonce, ErrOperationAborted or the error of the refresh function.
C28_OnlyThreeExits ==
    (powPc = "done" /\ searches >= 1 /\ powInput.refreshTipsFunc) =>
        powRet.err \in {"nil", ErrOperationAborted, ErrRefreshTips}

\* C28: when a search attempt times out, a refresh function is available
\* and the context is live, the refresh function is called once, the
\* block's parents are replaced by the returned tips, the prefix is
\* serialized again and a new search is started; the loop ends only with a
\* found nonce, with ErrOperationAborted on external cancellation, or with
\* an error of the refresh function, of the serialization of the refreshed
\* block or of the search itself, which is returned to the caller.
C28_RefreshAndRetry ==
    [][/\ (/\ powPc = "mine" /\ powPc' # "mine"
           /\ powInput.refreshTipsFunc /\ ~powCtxDone
           /\ attempt'.kind = "cancelled") =>
              /\ powPc' = "refresh"
              /\ refreshes' = refreshes + 1
              /\ block' = block
       /\ (powPc = "refresh" /\ powPc' # "refresh") =>
              /\ refreshes' = refreshes
              /\ refreshed'.kind = "tips" =>
                    /\ block' = [block EXCEPT !.StrongParents = refreshed'.tips]
                    /\ (~powCtxDone /\ ~Encode(block').err) =>
                          /\ powPc' = "mine"
                          /\ searches' = searches + 1
                          /\ powData' = refreshed'.tips
       /\ (/\ powPc # "done" /\ powPc' = "done"
           /\ searches >= 1 /\ powInput.refreshTipsFunc) =>
              \/ powRet'.err = "nil" /\ attempt'.kind = "found"
              \/ powRet'.err = ErrOperationAborted /\ powCtxDone
              \/ powRet'.err = ErrRefreshTips /\ refreshed'.kind = "error"
              \/ powRet'.err = ErrSerialize /\ Encode(block').err
              \/ powRet'.err = ErrMine /\ attempt'.kind = "failed"]_vars

\* The first search timed out, the tips were refreshed and the second
\* search found a nonce for the block with the new parents.
C28_Witness ==
    /\ powPc = "done"
    /\ searches = 2
    /\ refreshes = 1
    /\ ~powCtxDone
    /\ powRet.err = "nil"
    /\ powInput.block.StrongParents = <<"p1">>
    /\ block.StrongParents = <<"t1">>

\* C29: with a target of zero and a block that has parents, its own or the
\* ones a refresh function supplied, DoPoW sets the nonce to 0 and returns
\* without an error and without a search.
C29_ZeroTarget ==
    (/\ powPc = "done"
     /\ powInput.MinPoWScore = 0
     /\ \/ Len(powInput.block.StrongParents) > 0
        \/ (powInput.refreshTipsFunc /\ refreshed # Nil
            /\ refreshed.kind = "tips")) =>
        /\ block.Nonce = 0
        /\ powRet = PowReturn(0, "nil")
        /\ searches = 0
        /\ attempt = Nil

\* A zero target with the context cancelled and a nonce in the block.
C29_Witness ==
    /\ powPc = "done"
    /\ powInput.MinPoWScore = 0
    /\ powCtxDone
    /\ powInput.block.Nonce = 7
    /\ Len(powInput.block.StrongParents) > 0
    /\ block.Nonce = 0

\* C30: a block without parents and no refresh function make DoPoW fail
\* with ErrParentsNotGiven at once, for every target and every state of the
\* context: nothing is serialized or searched and the block is unchanged.
C30_ParentsNotGiven ==
    (/\ powPc # "idle"
     /\ Len(powInput.block.StrongParents) = 0
     /\ ~powInput.refreshTipsFunc) =>
        /\ powPc = "done"
        /\ powRet = PowReturn(0, ErrParentsNotGiven)
        /\ block = powInput.block
        /\ powData = Nil
        /\ searches = 0
        /\ refreshes = 0
        /\ attempt = Nil

\* No parents, no refresh function, a zero target and a cancelled context.
C30_Witness ==
    /\ powPc = "done"
    /\ powRet = PowReturn(0, ErrParentsNotGiven)
    /\ powInput.MinPoWScore = 0
    /\ powCtxDone
    /\ block.Nonce = 7

C32_AccessorsIdempotent ==
    [][(~updatedSince') =>
          /\ UNCHANGED statusVars
          /\ lastRead'.value = accessorValue(lastRead'.accessor)
          /\ (/\ ~updatedSince
              /\ lastRead # Nil
              /\ lastRead'.accessor = lastRead.accessor) =>
                 lastRead'.value = lastRead.value]_vars

\* LatestCommitment was called after an update and returned its commitment.
C32_Witness ==
    /\ lastRead # Nil
    /\ ~updatedSince
    /\ lastRead.accessor = "LatestCommitment"
    /\ lastRead.value # Nil
    /\ fired # <<>>

\* C33: every status update replaces the cached raw snapshot by the
\* incoming one as the last write of the critical section, also when both
\* commitments are stale or do not decode; the slots are compared with the
\* ones of the snapshot cached before, and once the critical section is
\* left NodeStatus() returns the snapshot applied last.
C33_SnapshotReplacedLast ==
    [][/\ nodeStatus' # nodeStatus => statusPc = "updateSnapshot"
       /\ statusPc = "updateSnapshot" =>
             /\ statusPc' = "Unlock"
             /\ nodeStatus' = pendingStatus
             /\ latestCommitment' = latestCommitment
             /\ latestFinalizedCommitment' = latestFinalizedCommitment
       /\ latestCommitment' # latestCommitment =>
             /\ statusPc = "updateLatest"
             /\ \/ nodeStatus = Nil
                \/ Slot(pendingStatus.latest.commitmentID) >
                      Slot(nodeStatus.latest.commitmentID)
       /\ latestFinalizedCommitment' # latestFinalizedCommitment =>
             /\ statusPc = "updateFinalized"
             /\ \/ nodeStatus = Nil
                \/ Slot(pendingStatus.finalized.commitmentID) >
                      Slot(nodeStatus.finalized.commitmentID)
       /\ (pendingStatus' # Nil
           /\ statusPc' \notin {"Lock", "updateLatest", "updateFinalized",
                                "updateSnapshot"}) =>
             nodeStatus' = pendingStatus']_vars

\* A status whose commitments are both ignored, the latest as stale and the
\* finalized as undecodable, has replaced the snapshot.
C33_Witness ==
    /\ statusPc = "Unlock"
    /\ ~changed.latest
    /\ ~changed.finalized
    /\ nodeStatus = pendingStatus
    /\ latestCommitment # Nil
    /\ Slot(nodeStatus.latest.commitmentID) < Slot(latestCommitment.CommitmentID)
    /\ nodeStatus.finalized.payload = "bad"
    /\ Slot(nodeStatus.finalized.commitmentID) = MaxSlot

\* C34: the raw snapshot and the two commitments are written inside one
\* critical section of nodeStatusMutex: they change only while the writer
\* holds the lock and no reader is inside, and no accessor, of a handler or
\* of another goroutine, is inside its read lock while an update has
\* written some of its fields and not yet the others.
C34_NoHalfUpdatedTriple ==
    [][/\ (<<nodeStatus, latestCommitment, latestFinalizedCommitment>>' #
           <<nodeStatus, latestCommitment, latestFinalizedCommitment>>) =>
             /\ nodeStatusMutex.writer
             /\ nodeStatusMutex'.writer
             /\ nodeStatusMutex.readers = 0
       /\ nodeStatusMutex'.writer <=>
             statusPc' \in {"updateLatest", "updateFinalized",
                            "updateSnapshot", "Unlock"}
       /\ (readerPc' = "reading" \/ handlerPc' = "RUnlock") =>
             /\ ~nodeStatusMutex'.writer
             /\ nodeStatusMutex'.readers > 0]_vars

\* A goroutine reads right after an update that replaced all three fields.
C34_Witness ==
    /\ readerPc = "reading"
    /\ statusPc = "triggerLatest"
    /\ changed.latest
    /\ changed.finalized
    /\ nodeStatus = pendingStatus
    /\ latestCommitment.CommitmentID = nodeStatus.latest.commitmentID
    /\ latestFinalizedCommitment.CommitmentID = nodeStatus.finalized.commitmentID

\* The outputs of a ledger update.
OutputsOf(u) ==
    {u.Consumed[i] : i \in 1..Len(u.Consumed)} \cup
    {u.Created[i] : i \in 1..Len(u.Created)}

\* The consumer function is about to process the begin-marker of a batch.
AtBeginMarker ==
    /\ pumpPc = "consume"
    /\ pumpItem.op = "BEGIN"
    /\ update = Nil

\* The outputs of a batch carry the commitment ID read at its begin-marker.
EnrichedAtBatchStart ==
    /\ latestCommitmentID' # latestCommitmentID => AtBeginMarker
    /\ AtBeginMarker /\ pumpPc' # "consume" =>
          latestCommitmentID' = latestCommitment.CommitmentID
    /\ update' # Nil =>
          \A o \in OutputsOf(update') :
              o.LatestCommitmentID = latestCommitmentID'
    /\ \A j \in 1..Len(delivered') :
          \A o1, o2 \in OutputsOf(delivered'[j]) :
              o1.LatestCommitmentID = o2.LatestCommitmentID

\* C35 as stated: the outputs of a batch carry the commitment ID read at
\* its begin-marker, and at that moment the cache has not yet been given
\* the commitment of the batch.
C35_ReadBeforeOwnCommitment ==
    [][/\ EnrichedAtBatchStart
       /\ AtBeginMarker /\ pumpPc' # "consume" =>
             Slot(latestCommitment.CommitmentID) < Slot(pumpItem.commitmentID)]_vars

\* C35: all outputs of one delivered ledger update carry the same
\* LatestCommitmentID, the commitment ID the status cache held when the
\* begin-marker of the batch was processed; it does not change when the
\* status cache advances while the batch is open. The cache may hold the
\* commitment of the batch, or a later one, by then.
C35_LatestAtBatchStart ==
    [][EnrichedAtBatchStart]_vars

\* The cache advanced while the batch is open, after its first output.
C35_Witness ==
    /\ update # Nil
    /\ Len(update.Consumed) = 1
    /\ update.Consumed[1].LatestCommitmentID = latestCommitmentID
    /\ Slot(latestCommitment.CommitmentID) > Slot(latestCommitmentID)
    /\ pumpPc = "consume"
    /\ pumpItem.op = "CREATED"

\* C36: NodeBridge.Run returns, with the connection closed, once the context
\* it was given is cancelled or the node-status listener has ended, for
\* whatever reason, and not before; the INX component then calls
\* SelfShutdown exactly when it finds the context not cancelled after Run
\* returned, and never once the context is cancelled.
C36_RunAndSelfShutdown ==
    /\ [][/\ runPc' = "returned" =>
                connClosed' /\ (parentDone' \/ listenerPc' = "done")
          /\ selfShutdown' # selfShutdown =>
                runPc = "returned" /\ ~parentDone /\ listenerPc = "done"
          /\ workerPc = "check" /\ workerPc' = "done" =>
                selfShutdown' = ~parentDone
          /\ parentDone /\ ~selfShutdown => ~selfShutdown']_vars
    /\ (runPc = "wait" /\ (parentDone \/ listenerPc \in {"cancel", "done"}))
          ~> (runPc = "returned" /\ workerPc = "done")

\* The listener failed, Run returned with the context alive and the worker
\* asked for the shutdown.
C36_Witness ==
    /\ workerPc = "done"
    /\ selfShutdown
    /\ listenerErr = "error"
    /\ connClosed
    /\ ~parentDone

\* C37 as stated: once DeregisterBlockAcceptedCallback(id) or
\* ClearBlockAcceptedCallbacks() has returned, a callback registered for id
\* before the call does not begin to execute.
C37_NoExecutionAfterDeregister ==
    [][\A c \in CallerIDs :
          deregistered[c] => begun'[c] = begun[c]]_vars

\* C37: once DeregisterBlockAcceptedCallback(id) or
\* ClearBlockAcceptedCallbacks() has returned, a callback registered for id
\* before the call is not started any more by a stream delivery or an
\* immediate trigger; one whose goroutine was started before the call
\* returned may still execute afterwards.
C37_NotStartedAfterDeregister ==
    [][\A c \in CallerIDs :
          deregistered[c] => invoked'[c] = invoked[c]]_vars

\* The callback was deregistered before it was started and the stream is
\* about to deliver its block.
C37_Witness ==
    \E c \in CallerIDs :
        /\ deregistered[c]
        /\ removed[c]
        /\ invoked[c] = 0
        /\ listenerState = "running"
        /\ acceptedStream # <<>>
        /\ Head(acceptedStream) = callers[c].blockID

\* C38: whenever processNodeStatus marked a commitment as changed, the
\* commitment it stored in the cache, used for SetCommittedSlot and passed
\* to the change event is not nil, so that processNodeStatus completes and
\* LatestCommitment() is not nil once a status was applied.
C38_ChangedCommitmentNotNil ==
    /\ stored.latest => latestCommitment # Nil
    /\ stored.finalized => latestFinalizedCommitment # Nil
    /\ \A i \in 1..Len(fired) : fired[i].commitment # Nil
    /\ statusState # "panic"
    /\ nodeStatus # Nil => latestCommitment # Nil

\* C39: LatestMilestoneChanged, and likewise ConfirmedMilestoneChanged, is
\* triggered with strictly increasing milestone indices, also while
\* NodeStatus() runs concurrently with the stream listeners.
C39_EventIndicesIncrease ==
    [][\A e \in MilestoneEventNames :
          (/\ milestoneEvents'[e] # milestoneEvents[e]
           /\ milestoneEvents[e].milestone # Nil
           /\ milestoneEvents'[e].milestone # Nil) =>
             Less32(milestoneEvents[e].milestone.index,
                    milestoneEvents'[e].milestone.index)]_vars

\* C40: whenever IsNodeSynced() is true, IsNodeAlmostSynced() is true as
\* well, for every milestone index a uint32 holds.
C40_SyncedImpliesAlmostSynced ==
    IsNodeSynced => IsNodeAlmostSynced

====
